---- MODULE Spec2Model ----
(***************************************************************************)
(* A model of the extension runtime of mem0-mcp: the plugin registry       *)
(* (core/plugin_registry.py, core/base_plugin.py) and the event bus        *)
(* (core/event_bus.py).                                                    *)
(*                                                                         *)
(* Every coroutine of the source is cut at its await points: one action    *)
(* is the code that runs between two awaits.  Plugin hooks, event handlers *)
(* and filters are the environment: each call of one chooses its outcome   *)
(* (returns or raises) nondeterministically.                               *)
(***************************************************************************)
EXTENDS Naturals, Integers, Sequences, FiniteSets, TLC

(***************************************************************************)
(* Bounds of the model.                                                    *)
(***************************************************************************)
\* the total number of entries in the plugins' dependency lists
MaxEdges == 2
\* the number of registry operations called
MaxCalls == 3
\* the number of subscribe calls
MaxSubs == 2
\* EventBus(history_size): the capacity of the history buffer
HistorySize == 2
\* the number of emit calls
MaxEmits == 3
\* the number of items in the event queue
MaxQueue == 3
\* the number of container methods called
MaxDICalls == 4
\* the depth of nested resolve calls
MaxDepth == 3
\* the number of tool calls dispatched
MaxDispatch == 2
\* the most middleware added to the event bus
MaxMiddleware == 2

(***************************************************************************)
(* Generic helpers (Python list operations).                               *)
(***************************************************************************)
Range(s) == {s[i] : i \in 1..Len(s)}

\* reversed(list)
ForwardOrder(s) == s
Reversed(s) == [i \in 1..Len(s) |-> s[Len(s) + 1 - i]]

\* del list[i] / list.pop(i), 1-based
RemoveAt(s, i) == [j \in 1..(Len(s) - 1) |-> IF j < i THEN s[j] ELSE s[j + 1]]

\* list.insert(i, x) with i the 1-based position x ends up at
InsertAt(s, i, x) ==
    [j \in 1..(Len(s) + 1) |-> IF j < i THEN s[j] ELSE IF j = i THEN x ELSE s[j - 1]]

\* the sequence without the entries that fail Test, order kept
RECURSIVE Without(_, _)
Without(s, x) ==
    IF s = <<>> THEN <<>>
    ELSE IF Head(s) = x THEN Without(Tail(s), x)
    ELSE <<Head(s)>> \o Without(Tail(s), x)

\* list.remove(x) when x is in the list: the first entry equal to x goes
RECURSIVE ListRemove(_, _)
ListRemove(s, x) ==
    IF s = <<>> THEN <<>>
    ELSE IF Head(s) = x THEN Tail(s)
    ELSE <<Head(s)>> \o ListRemove(Tail(s), x)

\* the entries of a sequence that are in a set, order kept
Restrict(s, S) == SelectSeq(s, LAMBDA x : x \in S)

IsPrefix(s, t) == Len(s) <= Len(t) /\ \A i \in 1..Len(s) : s[i] = t[i]

NoDuplicates(s) == \A i, j \in 1..Len(s) : s[i] = s[j] => i = j

(***************************************************************************)
(* The plugin classes handed to add_builtin_plugin, in that order.  The    *)
(* metadata name of a class is the class itself; its metadata.dependencies *)
(* list is chosen in Init.                                                 *)
(***************************************************************************)
Plugins == {"A", "B", "C"}
BuiltinPlugins == <<"A", "B", "C">>

\* a dependency list: plugin names, none twice
DepLists == {s \in UNION {[1..n -> Plugins] : n \in 0..Cardinality(Plugins)} : NoDuplicates(s)}

VARIABLES
    dependencies,   \* PluginMetadata.dependencies of each plugin class
    _plugins,       \* PluginRegistry._plugins: the registered names, in dict order
    pstate,         \* the state of the registered instance of each name
    _load_order,    \* PluginRegistry._load_order
    _initialized,   \* PluginRegistry._initialized
    rpc,            \* the registry coroutine in progress and its loop position
    hookLog,        \* the hooks the operation in progress (or the last one) has called
    graphNodes,     \* the keys of the graph _resolve_dependencies last built
    order0,         \* _load_order and _plugins as the operation in progress found them
    calls,          \* the number of registry operations called so far
    _plugin_types,  \* PluginRegistry._plugin_types: base class -> list of names
    started,        \* the names whose registered instance has received on_start
    bases           \* the base class of each plugin class that _load_plugin_class finds

regVars == <<dependencies, _plugins, pstate, _load_order, _initialized, rpc, hookLog,
             graphNodes, order0, calls, _plugin_types, started, bases>>

(***************************************************************************)
(* The event bus.  A callback is a Python callable; a subscription is an   *)
(* EventHandler object, told from the others by sid (its identity).        *)
(***************************************************************************)
Topics == {"x", "y"}
Callbacks == {"f", "g"}
Tasks == {"main", "worker"}

\* EventPriority values
HIGH == 25
NORMAL == 50
Priorities == {HIGH, NORMAL}

VARIABLES
    alive,          \* the callbacks that have not been garbage collected
    _handlers,      \* EventBus._handlers: topic -> list of EventHandler
    _history,       \* EventBus._history
    frames,         \* per task, the emit calls it is inside of, innermost last
    nextSid,        \* the number of EventHandler objects created so far
    nEmits,         \* the number of Event objects emit has created so far
    onceCalls       \* per once=True subscription, the number of times it was invoked

busVars == <<alive, _handlers, _history, frames, nextSid, nEmits, onceCalls>>

VARIABLES
    _middleware,    \* EventBus._middleware: the middleware added, in order
    replay          \* the replay_events call in progress (or the last one)

VARIABLES
    _event_queue,   \* EventBus._event_queue: the Events and stop signals put, oldest first
    _running,       \* EventBus._running
    _worker_task,   \* EventBus._worker_task: "None" or "task"
    wpc,            \* where the last task created for _worker is
    mpc,            \* where the task that calls the bus is
    nextQ,          \* the number of emit_async calls so far, plus one
    delivered,      \* the queued events the worker has called emit for, in order
    finished        \* the queued events whose emit has ended, in order

asyncVars == <<_event_queue, _running, _worker_task, wpc, mpc, nextQ, delivered, finished>>

(***************************************************************************)
(* The dependency injection container (core/dependency_injection.py).      *)
(* Two Container objects: root, and the child create_child_container       *)
(* makes.  A definition list is a Python list object, named by an id: two  *)
(* containers may hold the same list.                                      *)
(***************************************************************************)
Containers == {"root", "child"}
Interfaces == {"X", "Y"}
DITasks == {"t1", "t2"}

VARIABLES
    hasChild,       \* create_child_container has been called
    _definitions,   \* per container, Container._definitions: interface -> id of a list
    defLists,       \* the definition lists: id -> list of DependencyDefinition
    _singletons,    \* per container, Container._singletons: interface -> instance
    _request_scope, \* per container, Container._request_scope: interface -> instance
    _resolving,     \* per container, Container._resolving
    dstack,         \* per task, the resolve calls it is inside of, innermost last
    nextDef,        \* the number of DependencyDefinition objects created, plus one
    made,           \* the instances constructed or produced by a factory, in order
    diLog,          \* the resolve calls that have returned or raised, in order
    epoch,          \* per container and interface, the number of unregister calls
    diCalls,        \* the number of container methods called
    rootView        \* the definitions and singletons of root after the last call on root

diVars == <<hasChild, _definitions, defLists, _singletons, _request_scope, _resolving,
            dstack, nextDef, made, diLog, epoch, diCalls, rootView>>

(***************************************************************************)
(* The tool dispatcher (core/server.py, tool_handler): one call at a time, *)
(* suspended at an await while other tasks work on the registry.           *)
(***************************************************************************)
VARIABLES
    dpc,            \* where tool_handler is: "idle", the await it is suspended at, "ended"
    dreq,           \* the list its for loop walks and the position of the loop
    dlog,           \* what the call in progress has done
    nDispatch       \* the number of tool_handler calls so far

dispVars == <<dpc, dreq, dlog, nDispatch>>

extVars == <<diVars, dispVars, _middleware, replay>>

vars == <<regVars, busVars, asyncVars, extVars>>

Registered == Range(_plugins)

(***************************************************************************)
(* The registry's lookups.                                                 *)
(***************************************************************************)
\* get_plugin(name): the name stands for the instance registered under it
get_plugin(name) == IF name \in Registered THEN name ELSE "None"

\* get_plugins_by_type(plugin_type)
get_plugins_by_type(plugin_type) ==
    SelectSeq(_plugin_types[plugin_type], LAMBDA name : name \in Registered)

(***************************************************************************)
(* PluginRegistry._topological_sort: depth-first, dependencies first.      *)
(* graph is the dict as (keys in insertion order, dependency lists).       *)
(***************************************************************************)
RECURSIVE visit(_, _, _, _), visitDeps(_, _, _, _)
\* a visit that puts the node on the stack again when it was visited before
visitAppendAlways(node, keys, deps, st) ==
    IF node \in st.visited THEN [st EXCEPT !.stack = Append(@, node)]
    ELSE LET st1 == [st EXCEPT !.visited = @ \cup {node}]
             st2 == visitDeps(deps[node], keys, deps, st1)
         IN  [st2 EXCEPT !.stack = Append(@, node)]
visit(node, keys, deps, st) ==
    IF node \in st.visited THEN st
    ELSE LET st1 == [st EXCEPT !.visited = @ \cup {node}]
             st2 == visitDeps(deps[node], keys, deps, st1)
         IN  [st2 EXCEPT !.stack = Append(@, node)]
visitDeps(ds, keys, deps, st) ==
    IF ds = <<>> THEN st
    ELSE LET st1 == IF Head(ds) \in Range(keys) THEN visit(Head(ds), keys, deps, st) ELSE st
         IN  visitDeps(Tail(ds), keys, deps, st1)

RECURSIVE visitAll(_, _, _, _)
visitAll(rest, keys, deps, st) ==
    IF rest = <<>> THEN st
    ELSE visitAll(Tail(rest), keys, deps, visit(Head(rest), keys, deps, st))

\* a sort that puts a plugin on the stack before its dependencies
RECURSIVE visitPre(_, _, _, _), visitDepsPre(_, _, _, _), visitAllPre(_, _, _, _)
visitPre(node, keys, deps, st) ==
    IF node \in st.visited THEN st
    ELSE visitDepsPre(deps[node], keys, deps,
                      [visited |-> st.visited \cup {node}, stack |-> Append(st.stack, node)])
visitDepsPre(ds, keys, deps, st) ==
    IF ds = <<>> THEN st
    ELSE LET st1 == IF Head(ds) \in Range(keys) THEN visitPre(Head(ds), keys, deps, st) ELSE st
         IN  visitDepsPre(Tail(ds), keys, deps, st1)
visitAllPre(rest, keys, deps, st) ==
    IF rest = <<>> THEN st
    ELSE visitAllPre(Tail(rest), keys, deps, visitPre(Head(rest), keys, deps, st))
TopologicalSortPreorder(keys, deps) ==
    visitAllPre(keys, keys, deps, [visited |-> {}, stack |-> <<>>]).stack

_topological_sort(keys, deps) ==
    visitAll(keys, keys, deps, [visited |-> {}, stack |-> <<>>]).stack

(***************************************************************************)
(* The base classes _load_plugin_class classifies by.  A plugin class      *)
(* derives from one of them or, unclassified, from BasePlugin itself.      *)
(***************************************************************************)
PluginTypes == {"MiddlewarePlugin", "OperationPlugin"}
NoTypes == [t \in PluginTypes |-> <<>>]

\* the classes of a server with middleware: A and B are MiddlewarePlugin classes,
\* C is an OperationPlugin class
ClassifiedBases == [p \in Plugins |-> IF p = "C" THEN "OperationPlugin" ELSE "MiddlewarePlugin"]
\* classes that derive from BasePlugin alone
PlainBases == [p \in Plugins |-> "BasePlugin"]

\* the test "metadata.name in self._plugins" of _load_plugin_class
NeverLoaded(name, plugins) == FALSE
AlreadyLoaded(name, plugins) == name \in Range(plugins)

(***************************************************************************)
(* _load_plugin_class(cls) on st = (_plugins, _plugin_types, the names     *)
(* that got a fresh instance, the log of the constructors that raised).    *)
(* The instance is constructed first: when that raises nothing is          *)
(* registered; a name already registered is skipped; any other is appended *)
(* to _plugins with the fresh instance and to the list of its base class.  *)
(***************************************************************************)
_load_plugin_class(cls, raises, st) ==
    IF raises THEN [st EXCEPT !.log = Append(@, <<"construct_raises", cls>>)]
    ELSE IF AlreadyLoaded(cls, st.plugins) THEN st
    ELSE [st EXCEPT !.plugins = Append(@, cls),
                    !.types = [t \in PluginTypes |->
                                  IF t = bases[cls] THEN Append(st.types[t], cls)
                                  ELSE st.types[t]],
                    !.fresh = @ \cup {cls}]

\* the registry as _load_plugin_class finds it
Loading == [plugins |-> _plugins, types |-> _plugin_types, fresh |-> {}, log |-> <<>>]

\* the loop of discover_and_load over the built-in classes; the constructors of
\* the classes in ctorFails raise
RECURSIVE LoadClasses(_, _, _)
LoadClasses(classes, ctorFails, st) ==
    IF classes = <<>> THEN st
    ELSE LoadClasses(Tail(classes), ctorFails,
                     _load_plugin_class(Head(classes), Head(classes) \in ctorFails, st))

\* del self._plugins[plugin_name] for a plugin whose initialize or on_load raised
KeepFailed(plugins, p) == plugins
RemoveFailed(plugins, p) == Without(plugins, p)

Idle == [op |-> "idle", i |-> 0, active |-> FALSE]
NoOrder == [load_order |-> <<>>, plugins |-> {}]

\* the dependency graphs of the model
DependencyGraphs ==
    {d \in [Plugins -> DepLists] : Len(d["A"]) + Len(d["B"]) + Len(d["C"]) <= MaxEdges}
NoDependencies == [p \in Plugins |-> <<>>]

InitReg ==
    /\ _plugins = <<>>
    /\ pstate = [p \in Plugins |-> "none"]
    /\ _load_order = <<>>
    /\ _initialized = FALSE
    /\ rpc = Idle
    /\ hookLog = <<>>
    /\ graphNodes = {}
    /\ order0 = NoOrder
    /\ calls = 0
    /\ _plugin_types = NoTypes
    /\ started = {}

\* discover_and_load up to its first await that can suspend: load the classes,
\* _resolve_dependencies, and enter the loop of _initialize_plugins
DiscoverAndLoad ==
    /\ ~rpc.active /\ calls < MaxCalls
    /\ calls' = calls + 1
    /\ \E ctorFails \in SUBSET (Plugins \ Registered) :
         LET st  == LoadClasses(BuiltinPlugins, ctorFails, Loading)
             reg == st.plugins
             lo  == _topological_sort(reg, dependencies)
         IN  /\ _plugins' = reg
             /\ _plugin_types' = st.types
             /\ pstate' = [p \in Plugins |->
                              IF p \in st.fresh THEN "created" ELSE pstate[p]]
             /\ started' = started \ st.fresh
             /\ _load_order' = lo
             /\ graphNodes' = Range(reg)
             /\ order0' = [load_order |-> lo, plugins |-> Range(reg)]
             /\ hookLog' = st.log
    /\ rpc' = [op |-> "discover", i |-> 1, active |-> TRUE]
    /\ UNCHANGED <<dependencies, bases, _initialized>>
    /\ UNCHANGED <<busVars, asyncVars, extVars>>

\* one turn of the loop of _initialize_plugins: initialize() then on_load();
\* either may raise, which removes the plugin from _plugins
InitializePlugin ==
    /\ rpc.op = "discover" /\ rpc.active
    /\ rpc.i <= Len(_load_order)
    /\ LET p == _load_order[rpc.i]
       IN  \E outcome \in {"ok", "setup_raises", "on_load_raises"} :
             \* BasePlugin.initialize returns at once when already initialized
             /\ outcome = "setup_raises" => pstate[p] = "created"
             /\ hookLog' = hookLog \o
                    (IF outcome = "setup_raises" THEN << <<"initialize", p>> >>
                     ELSE << <<"initialize", p>>, <<"on_load", p>> >>)
             /\ IF outcome = "ok"
                THEN /\ pstate' = [pstate EXCEPT ![p] = "loaded"]
                     /\ UNCHANGED _plugins
                ELSE /\ pstate' = [pstate EXCEPT ![p] = "none"]
                     /\ _plugins' = RemoveFailed(_plugins, p)
             /\ started' = IF outcome = "ok" THEN started ELSE started \ {p}
    /\ rpc' = [rpc EXCEPT !.i = @ + 1]
    /\ UNCHANGED <<calls, dependencies, bases, _load_order, _initialized, graphNodes, order0,
                   _plugin_types>>
    /\ UNCHANGED <<busVars, asyncVars, extVars>>

DiscoverDone ==
    /\ rpc.op = "discover" /\ rpc.active
    /\ rpc.i > Len(_load_order)
    /\ _initialized' = TRUE
    /\ rpc' = Idle
    /\ hookLog' = <<>>
    /\ graphNodes' = {}
    /\ order0' = NoOrder
    /\ UNCHANGED <<calls, dependencies, bases, _plugins, pstate, _load_order, _plugin_types, started>>
    /\ UNCHANGED <<busVars, asyncVars, extVars>>

(***************************************************************************)
(* start_all, stop_all, unload_all: one hook call per loop turn.  A name   *)
(* of _load_order that is no longer in _plugins is passed over.  A hook    *)
(* that raises is logged by the code and changes nothing.                  *)
(***************************************************************************)
BeginLoop(op) ==
    /\ ~rpc.active /\ calls < MaxCalls
    /\ calls' = calls + 1
    /\ rpc' = [op |-> op, i |-> 1, active |-> TRUE]
    /\ hookLog' = <<>>
    /\ order0' = [load_order |-> _load_order, plugins |-> Registered]
    /\ UNCHANGED <<dependencies, bases, _plugins, pstate, _load_order, _initialized, graphNodes,
                   _plugin_types, started>>
    /\ UNCHANGED <<busVars, asyncVars, extVars>>

\* the order in which start_all walks _load_order
StartOrder(lo) == lo
\* the order in which stop_all and unload_all walk _load_order
StopOrder(lo) == Reversed(lo)

\* the try block around a hook in start_all and stop_all (lines 237-240, 247-250):
\* the loop goes on to the next name whether the hook returned or raised
HookPropagates(i, outcome) == IF outcome = "raises" THEN Len(_load_order) + 1 ELSE i + 1
AfterHook(i, outcome) == i + 1

StartAll == BeginLoop("start_all")

OnStart ==
    /\ rpc.op = "start_all" /\ rpc.active
    /\ rpc.i <= Len(_load_order)
    /\ LET p == StartOrder(_load_order)[rpc.i]
       IN  IF p \in Registered
           THEN \E outcome \in {"returns", "raises"} :
                   /\ hookLog' = Append(hookLog, <<"on_start", p, outcome>>)
                   /\ started' = started \cup {p}
                   /\ rpc' = [rpc EXCEPT !.i = AfterHook(rpc.i, outcome)]
           ELSE /\ rpc' = [rpc EXCEPT !.i = @ + 1]
                /\ UNCHANGED <<hookLog, started>>
    /\ UNCHANGED <<calls, dependencies, bases, _plugins, pstate, _load_order, _initialized, graphNodes,
                   order0, _plugin_types>>
    /\ UNCHANGED <<busVars, asyncVars, extVars>>

StopAll == BeginLoop("stop_all")

OnStop ==
    /\ rpc.op = "stop_all" /\ rpc.active
    /\ rpc.i <= Len(_load_order)
    /\ LET p == StopOrder(_load_order)[rpc.i]
       IN  IF p \in Registered
           THEN \E outcome \in {"returns", "raises"} :
                   /\ hookLog' = Append(hookLog, <<"on_stop", p, outcome>>)
                   /\ rpc' = [rpc EXCEPT !.i = AfterHook(rpc.i, outcome)]
           ELSE /\ rpc' = [rpc EXCEPT !.i = @ + 1]
                /\ UNCHANGED hookLog
    /\ UNCHANGED <<calls, dependencies, bases, _plugins, pstate, _load_order, _initialized, graphNodes,
                   order0, _plugin_types, started>>
    /\ UNCHANGED <<busVars, asyncVars, extVars>>

\* start_all and stop_all return when their loop is exhausted
LoopDone ==
    /\ rpc.op \in {"start_all", "stop_all"} /\ rpc.active
    /\ rpc.i > Len(_load_order)
    /\ rpc' = Idle
    /\ hookLog' = <<>>
    /\ order0' = NoOrder
    /\ UNCHANGED <<calls, dependencies, bases, _plugins, pstate, _load_order, _initialized, graphNodes,
                   _plugin_types, started>>
    /\ UNCHANGED <<busVars, asyncVars, extVars>>

UnloadAll == BeginLoop("unload_all")

\* on_unload() then teardown(); teardown is not reached when on_unload raises
OnUnload ==
    /\ rpc.op = "unload_all" /\ rpc.active
    /\ rpc.i <= Len(_load_order)
    /\ LET p == StopOrder(_load_order)[rpc.i]
       IN  \E outcome \in {"ok", "on_unload_raises"} :
             hookLog' = IF p \notin Registered THEN hookLog
                        ELSE IF outcome = "ok"
                             THEN hookLog \o << <<"on_unload", p>>, <<"teardown", p>> >>
                             ELSE Append(hookLog, <<"on_unload", p>>)
    /\ rpc' = [rpc EXCEPT !.i = @ + 1]
    /\ UNCHANGED <<calls, dependencies, bases, _plugins, pstate, _load_order, _initialized, graphNodes,
                   order0, _plugin_types, started>>
    /\ UNCHANGED <<busVars, asyncVars, extVars>>

\* the end of unload_all: the registry state is cleared
UnloadDone ==
    /\ rpc.op = "unload_all" /\ rpc.active
    /\ rpc.i > Len(_load_order)
    /\ _plugins' = <<>>
    /\ _plugin_types' = NoTypes
    /\ pstate' = [p \in Plugins |-> "none"]
    /\ started' = {}
    /\ _load_order' = <<>>
    /\ _initialized' = FALSE
    /\ rpc' = Idle
    /\ hookLog' = <<>>
    /\ order0' = NoOrder
    /\ UNCHANGED <<calls, dependencies, bases, graphNodes>>
    /\ UNCHANGED <<busVars, asyncVars, extVars>>

(***************************************************************************)
(* reload_plugin(name) for a registered name.  The first step that raises  *)
(* ends it with False: on_unload or teardown before the name is deleted,   *)
(* the constructor (caught in _load_plugin_class, so that the lookup       *)
(* self._plugins[name] raises KeyError), or initialize, on_load, on_start  *)
(* of the new instance, which _load_plugin_class has registered by then.   *)
(***************************************************************************)
ReloadOutcomes == {"ok", "unload_raises", "ctor_raises", "setup_raises",
                   "on_load_raises", "on_start_raises"}

\* a removal that takes the plugins depending on the name along
RemoveWithDependents(name, st) ==
    LET gone == {name} \cup {q \in Plugins : name \in Range(dependencies[q])}
    IN  [st EXCEPT !.plugins = SelectSeq(@, LAMBDA q : q \notin gone),
                   !.types = [t \in PluginTypes |->
                                 SelectSeq(st.types[t], LAMBDA q : q \notin gone)]]
\* the lines 284-287: the name leaves _plugins and each list of _plugin_types
RemoveFromRegistry(name, st) ==
    [st EXCEPT !.plugins = Without(@, name),
               !.types = [t \in PluginTypes |-> ListRemove(st.types[t], name)]]

\* _plugins and _plugin_types after reload_plugin(name)
reload_plugin(name, outcome) ==
    IF outcome = "unload_raises" THEN Loading
    ELSE _load_plugin_class(name, outcome = "ctor_raises", RemoveFromRegistry(name, Loading))

ReloadPlugin ==
    /\ ~rpc.active /\ calls < MaxCalls
    /\ calls' = calls + 1
    /\ \E name \in Registered :
         \E outcome \in ReloadOutcomes :
           LET st == reload_plugin(name, outcome)
           IN  /\ _plugins' = st.plugins
               /\ _plugin_types' = st.types
               /\ pstate' = [pstate EXCEPT ![name] =
                                CASE outcome = "unload_raises"   -> @
                                  [] outcome = "ctor_raises"     -> "none"
                                  [] outcome = "setup_raises"    -> "created"
                                  [] outcome = "on_load_raises"  -> "initialized"
                                  [] OTHER                       -> "loaded"]
               /\ started' = IF outcome = "unload_raises" THEN started
                             ELSE IF outcome \in {"ok", "on_start_raises"}
                             THEN started \cup {name}
                             ELSE started \ {name}
    /\ UNCHANGED <<dependencies, bases, _load_order, _initialized, rpc, hookLog, graphNodes, order0>>
    /\ UNCHANGED <<busVars, asyncVars, extVars>>

(***************************************************************************)
(* EventHandler and the handler lists.                                     *)
(***************************************************************************)
Sids == 1..MaxSubs

\* EventHandler(callback, priority, filter, once, weak); filter is "none" or the
\* one filter predicate "flt" of the model
EventHandler(sid, callback, priority, filter, once, weak) ==
    [sid |-> sid, callback |-> callback, priority |-> priority, filter |-> filter,
     once |-> once, weak |-> weak]

\* the dataclass-generated EventHandler.__eq__, which list.remove uses: the fields
\* are compared, not the identity of the object
HandlerEq(a, b) ==
    /\ a.callback = b.callback
    /\ a.priority = b.priority
    /\ a.filter = b.filter
    /\ a.once = b.once
    /\ a.weak = b.weak

\* h.callback() if h.weak else h.callback; "None" for a dead referent
Callback(h) == IF h.weak /\ h.callback \notin alive THEN "None" ELSE h.callback

\* self._handlers.get(event_name, [])
HandlersOf(hmap, topic) == IF topic \in DOMAIN hmap THEN hmap[topic] ELSE <<>>

SidsOf(hs) == [i \in 1..Len(hs) |-> hs[i].sid]

\* the least index of s that satisfies Test, or 0
FirstIndex(s, Test(_)) ==
    IF \E i \in 1..Len(s) : Test(s[i])
    THEN CHOOSE i \in 1..Len(s) : Test(s[i]) /\ \A j \in 1..(i - 1) : ~Test(s[j])
    ELSE 0

\* subscribe: the index to insert at, before the first handler of greater priority value
InsertBeforeGreaterOrEqual(hs, priority) ==
    LET i == FirstIndex(hs, LAMBDA h : h.priority >= priority)
    IN  IF i = 0 THEN Len(hs) + 1 ELSE i
InsertIndex(hs, priority) ==
    LET i == FirstIndex(hs, LAMBDA h : h.priority > priority)
    IN  IF i = 0 THEN Len(hs) + 1 ELSE i

\* _add_to_history
AddToHistoryDropNewest(history, event) ==
    IF Len(history) + 1 > HistorySize THEN history ELSE Append(history, event)
AddToHistory(history, event) ==
    LET h == Append(history, event)
    IN  IF Len(h) > HistorySize THEN Tail(h) ELSE h

\* get_history(event_name, limit); event_name "None" when not given; limit is an
\* Optional[int], <<>> for None and <<n>> for n, and `if limit:` is false for
\* None and for 0
GetHistory(event_name, limit) ==
    LET byName == IF event_name # "None"
                  THEN SelectSeq(_history, LAMBDA e : e.name = event_name)
                  ELSE _history
    IN  IF limit # <<>> /\ limit[1] # 0
        THEN \* events[-limit:], the whole list when limit is its length or more
             IF limit[1] >= Len(byName) THEN byName
             ELSE SubSeq(byName, Len(byName) - limit[1] + 1, Len(byName))
        ELSE byName

(***************************************************************************)
(* emit.  A frame is one emit call in progress: the position of its for    *)
(* loop over the handler list, the handler it awaits, and its locals.      *)
(* The loop walks the list object it fetched at the start: the live list   *)
(* of the topic, or (detached) a list no longer reachable from _handlers.  *)
(***************************************************************************)
FrameList(fr) == IF fr.detached THEN fr.snap ELSE _handlers[fr.topic]

NewFrame(topic, ev, qid) ==
    [topic |-> topic, ev |-> ev, qid |-> qid, st |-> "start", it |-> 0, cur |-> 0,
     results |-> <<>>, toRemove |-> <<>>,
     detached |-> topic \notin DOMAIN _handlers, snap |-> <<>>,
     list0 |-> HandlersOf(_handlers, topic),
     dead0 |-> {h.sid : h \in {x \in Range(HandlersOf(_handlers, topic)) : Callback(x) = "None"}},
     invoked |-> <<>>, raisedIn |-> {}, filtered |-> {}, deadSeen |-> {},
     mw |-> <<>>, cancelled |-> FALSE, raising |-> {}, filterRaised |-> 0]

\* is the weak reference of h dead (line 217)
IgnoreDead(h) == FALSE
IsDead(h) == h.weak /\ h.callback \notin alive

\* the for loop from list position k on, up to the next handler to invoke:
\* dead weak handlers are marked for removal, handlers whose filter rejects the
\* event (the subscriptions in rejected) are passed over; a filter that raises
\* (the subscriptions in fr.raising) ends the loop and emit with its exception,
\* handler.matches (line 222) being called outside the try block
RECURSIVE Advance(_, _, _, _)
Advance(hs, k, fr, rejected) ==
    IF k > Len(hs) THEN [fr EXCEPT !.st = "loop_end", !.it = k]
    ELSE LET h == hs[k]
         IN  IF IsDead(h)
             THEN Advance(hs, k + 1, [fr EXCEPT !.toRemove = Append(@, h),
                                                !.deadSeen = @ \cup {h.sid}], rejected)
             ELSE IF h.filter # "none" /\ h.sid \in fr.raising
             THEN [fr EXCEPT !.st = "raised", !.it = k, !.filterRaised = h.sid]
             ELSE IF h.filter # "none" /\ h.sid \in rejected
             THEN Advance(hs, k + 1, [fr EXCEPT !.filtered = @ \cup {h.sid}], rejected)
             ELSE [fr EXCEPT !.st = "invoking", !.it = k, !.cur = h,
                            !.invoked = Append(@, h.sid)]

\* self._handlers[event_name].remove(handler) for each handler marked; err is the
\* KeyError (the topic is gone) or ValueError (no equal handler) that ends it
RECURSIVE RemoveHandlers(_, _, _)
RemoveHandlers(hmap, topic, rem) ==
    IF rem = <<>> THEN [handlers |-> hmap, err |-> FALSE]
    ELSE IF topic \notin DOMAIN hmap THEN [handlers |-> hmap, err |-> TRUE]
    ELSE LET i == FirstIndex(hmap[topic], LAMBDA e : HandlerEq(e, Head(rem)))
         IN  IF i = 0 THEN [handlers |-> hmap, err |-> TRUE]
             ELSE RemoveHandlers([hmap EXCEPT ![topic] = RemoveAt(@, i)], topic, Tail(rem))

\* the try block around handler.invoke (lines 225-234): a result is appended and a
\* once handler marked for removal when the handler returns, not when it raises
AfterHandlerRecordsFailure(fr, outcome) ==
    [fr EXCEPT !.results = Append(@, fr.cur.sid),
               !.toRemove = IF fr.cur.once THEN Append(@, fr.cur) ELSE @,
               !.raisedIn = IF outcome = "raises" THEN @ \cup {fr.cur.sid} ELSE @]
AfterHandler(fr, outcome) ==
    IF outcome = "returns"
    THEN [fr EXCEPT !.results = Append(@, fr.cur.sid),
                    !.toRemove = IF fr.cur.once THEN Append(@, fr.cur) ELSE @]
    ELSE [fr EXCEPT !.raisedIn = @ \cup {fr.cur.sid}]

\* emit from the loop position of fr up to its next await or its end
RunEmit(fr, rejected) ==
    LET a == Advance(FrameList(fr), fr.it + 1, fr, rejected)
    IN  IF a.st \in {"invoking", "raised"}
        THEN [frame |-> [a EXCEPT !.raising = {}], handlers |-> _handlers]
        ELSE LET r == RemoveHandlers(_handlers, a.topic, a.toRemove)
             IN  [frame    |-> [a EXCEPT !.st = IF r.err THEN "raised" ELSE "returned",
                                           !.raising = {}],
                  handlers |-> r.handlers]

\* the filter that raises in a pass of the loop, if any: the loop ends at the
\* first one, so one at most is reached
Raising(sids) == {{}} \cup {{s} : s \in sids}

\* the subscriptions of a list that have a filter
Filtered(hs) == {hs[i].sid : i \in {j \in 1..Len(hs) : hs[j].filter # "none"}}

Top(t) == frames[t][Len(frames[t])]
SetTop(t, fr) == [frames EXCEPT ![t] = [@ EXCEPT ![Len(@)] = fr]]
Push(t, fr) == [frames EXCEPT ![t] = Append(@, fr)]
Pop(t) == [frames EXCEPT ![t] = SubSeq(@, 1, Len(@) - 1)]

\* no emit is in progress: the bus is called from one task, one call at a time
Quiet == \A t \in Tasks : frames[t] = <<>>

InitBus ==
    /\ alive = Callbacks
    /\ _handlers = <<>>
    /\ _history = <<>>
    /\ frames = [t \in Tasks |-> <<>>]
    /\ nextSid = 1
    /\ nEmits = 0
    /\ onceCalls = [s \in {} |-> 0]

\* __init__: an empty queue, no worker
InitAsync ==
    /\ _event_queue = <<>>
    /\ _running = FALSE
    /\ _worker_task = "None"
    /\ wpc = "none"
    /\ mpc = "idle"
    /\ nextQ = 1
    /\ delivered = <<>>
    /\ finished = <<>>

\* Container.__init__
InitDI ==
    /\ hasChild = FALSE
    /\ _definitions = [c \in Containers |-> <<>>]
    /\ defLists = <<>>
    /\ _singletons = [c \in Containers |-> <<>>]
    /\ _request_scope = [c \in Containers |-> <<>>]
    /\ _resolving = [c \in Containers |-> {}]
    /\ dstack = [t \in DITasks |-> <<>>]
    /\ nextDef = 1
    /\ made = <<>>
    /\ diLog = <<>>
    /\ epoch = [c \in Containers |-> [i \in Interfaces |-> 0]]
    /\ diCalls = 0
    /\ rootView = [definitions |-> [i \in Interfaces |-> <<>>], singletons |-> <<>>]

\* no tool call yet
NoLoop == [chain |-> <<>>, i |-> 0]
NoEvent == [name |-> "None", result |-> "none", after |-> <<>>]
NoCall == [operation |-> "None", request |-> <<>>, handler |-> 0, response |-> <<>>,
           result |-> "none", history0 |-> <<>>, emits0 |-> 0, outcome |-> "none",
           event |-> NoEvent]
InitDisp ==
    /\ dpc = "idle"
    /\ dreq = NoLoop
    /\ dlog = NoCall
    /\ nDispatch = 0

\* no replay_events call yet
NoReplay == [active |-> FALSE, live |-> FALSE, snap |-> <<>>, i |-> 0, seq0 |-> <<>>,
             emitted |-> <<>>]
InitExt == InitDI /\ InitDisp /\ _middleware = <<>> /\ replay = NoReplay

\* the server's components after construction, the plugins without dependencies
Init == dependencies = NoDependencies /\ bases = ClassifiedBases /\ InitReg /\ InitBus /\ InitAsync /\ InitExt

\* subscribe(event_name, handler, priority, filter, once, weak)
Subscribe(topic, handler, priority, filter, once, weak) ==
    /\ nextSid <= MaxSubs
    /\ handler \in alive
    /\ LET eh == EventHandler(nextSid, handler, priority, filter, once, weak)
           hs == HandlersOf(_handlers, topic)
           new == InsertAt(hs, InsertIndex(hs, priority), eh)
       IN  _handlers' = [t \in DOMAIN _handlers \cup {topic} |->
                            IF t = topic THEN new ELSE _handlers[t]]
    /\ nextSid' = nextSid + 1
    /\ onceCalls' = IF once THEN [s \in DOMAIN onceCalls \cup {nextSid} |->
                                     IF s = nextSid THEN 0 ELSE onceCalls[s]]
                    ELSE onceCalls
    /\ UNCHANGED <<alive, _history, frames, nEmits>>

\* unsubscribe(event_name, handler): the first handler whose callback is handler
Unsubscribe(topic, handler) ==
    /\ handler \in alive
    /\ topic \in DOMAIN _handlers
    /\ LET i == FirstIndex(_handlers[topic], LAMBDA h : Callback(h) = handler)
       IN  _handlers' = IF i = 0 THEN _handlers
                        ELSE [_handlers EXCEPT ![topic] = RemoveAt(@, i)]
    /\ UNCHANGED <<alive, _history, frames, nextSid, nEmits, onceCalls>>

\* an emit whose list leaves _handlers goes on over the list it holds
Detach(topics) ==
    [t \in Tasks |->
        [i \in 1..Len(frames[t]) |->
            LET fr == frames[t][i]
            IN  IF ~fr.detached /\ fr.topic \in topics
                THEN [fr EXCEPT !.detached = TRUE, !.snap = _handlers[fr.topic]]
                ELSE fr]]

\* unsubscribe_all(event_name), "None" for all topics
UnsubscribeAll(event_name) ==
    /\ _handlers # <<>>
    /\ LET gone == IF event_name = "None" THEN DOMAIN _handlers
                   ELSE {event_name} \cap DOMAIN _handlers
       IN  /\ _handlers' = [t \in DOMAIN _handlers \ gone |-> _handlers[t]]
           /\ frames' = Detach(gone)
    /\ UNCHANGED <<alive, _history, nextSid, nEmits, onceCalls>>

\* the referent of a callback is collected: no strong reference to it is left in
\* a handler list or in an emit in progress
Collect(cb) ==
    /\ cb \in alive
    /\ \E t \in DOMAIN _handlers : \E i \in 1..Len(_handlers[t]) :
          _handlers[t][i].callback = cb
    /\ \A t \in DOMAIN _handlers : \A i \in 1..Len(_handlers[t]) :
          _handlers[t][i].callback = cb => _handlers[t][i].weak
    /\ \A t \in Tasks : \A i \in 1..Len(frames[t]) :
          LET fr == frames[t][i]
          IN  /\ fr.st = "invoking" => fr.cur.callback # cb
              /\ \A k \in 1..Len(fr.toRemove) :
                    fr.toRemove[k].callback = cb => fr.toRemove[k].weak
              /\ \A k \in 1..Len(fr.snap) : fr.snap[k].callback = cb => fr.snap[k].weak
    /\ alive' = alive \ {cb}
    /\ UNCHANGED <<_handlers, _history, frames, nextSid, nEmits, onceCalls>>

\* the middleware loop of emit (lines 204-207): the middleware are awaited in
\* order; when the one at position cancelAt returns None emit returns [] at once
\* (cancelAt = 0: none of them cancels)
IgnoreCancel(fr, cancelAt) ==
    IF cancelAt = 0 THEN [fr EXCEPT !.mw = _middleware]
    ELSE [fr EXCEPT !.mw = SubSeq(_middleware, 1, cancelAt), !.cancelled = TRUE]
ApplyMiddleware(fr, cancelAt) ==
    IF cancelAt = 0 THEN [fr EXCEPT !.mw = _middleware]
    ELSE [fr EXCEPT !.mw = SubSeq(_middleware, 1, cancelAt), !.cancelled = TRUE,
                    !.st = "returned"]

\* emit(event_name) called by task t for the queued event qid (0: called directly):
\* the event goes to the history, the middleware run, and the loop over the
\* handlers runs to its first await
BeginEmit(t, topic, qid) ==
    /\ nEmits < MaxEmits
    /\ nEmits' = nEmits + 1
    /\ _history' = AddToHistory(_history, [id |-> nEmits + 1, name |-> topic])
    /\ \E cancelAt \in 0..Len(_middleware) :
       \E rejected \in SUBSET Filtered(HandlersOf(_handlers, topic)) :
       \E raising \in Raising(Filtered(HandlersOf(_handlers, topic)) \ rejected) :
         LET m == ApplyMiddleware(NewFrame(topic, nEmits + 1, qid), cancelAt)
             r == IF m.st = "returned" THEN [frame |-> m, handlers |-> _handlers]
                  ELSE RunEmit([m EXCEPT !.raising = raising], rejected)
         IN  /\ frames' = Push(t, r.frame)
             /\ _handlers' = r.handlers
    /\ UNCHANGED <<alive, nextSid>>

\* the handler task t awaits returns or raises, and the loop runs on
HandlerCompletes(t) ==
    /\ frames[t] # <<>>
    /\ Top(t).st = "invoking"
    /\ LET fr == Top(t)
           h == fr.cur
       IN  /\ onceCalls' = IF h.once /\ h.sid \in DOMAIN onceCalls
                           THEN [onceCalls EXCEPT ![h.sid] = @ + 1] ELSE onceCalls
           /\ \E outcome \in {"returns", "raises"} :
              \E rejected \in SUBSET Filtered(FrameList(fr)) :
              \E raising \in Raising(Filtered(FrameList(fr)) \ rejected) :
                LET r == RunEmit([AfterHandler(fr, outcome) EXCEPT !.raising = raising],
                                 rejected)
                IN  /\ frames' = SetTop(t, r.frame)
                    /\ _handlers' = r.handlers
    /\ UNCHANGED <<alive, _history, nextSid, nEmits>>

\* emit returns its results, or raises, to its caller
EndEmit(t) ==
    /\ frames[t] # <<>>
    /\ Top(t).st \in {"returned", "raised"}
    /\ frames' = Pop(t)
    /\ UNCHANGED <<alive, _handlers, _history, nextSid, nEmits, onceCalls>>

(***************************************************************************)
(* The bus called from one task, one call at a time.                       *)
(***************************************************************************)
\* the subscribe calls of the model.  On topic x: callback f at either priority,
\* plain or once; callback g at either priority, plain, weak or with the filter.
\* On topic y: f, plain.
SubscribeCalls ==
    {c \in [topic : Topics, handler : Callbacks, priority : Priorities,
            filter : {"none", "flt"}, once : BOOLEAN, weak : BOOLEAN] :
        /\ c.handler = "f" => c.filter = "none" /\ ~c.weak
        /\ c.handler = "g" => ~c.once /\ (c.filter = "none" \/ ~c.weak)
        /\ c.topic = "y" => c.handler = "f" /\ c.priority = NORMAL /\ ~c.once}

BusSubscribe ==
    /\ Quiet
    /\ \E c \in SubscribeCalls :
          Subscribe(c.topic, c.handler, c.priority, c.filter, c.once, c.weak)
    /\ UNCHANGED <<regVars, extVars, asyncVars>>

BusUnsubscribe ==
    /\ Quiet
    /\ \E topic \in Topics, handler \in Callbacks : Unsubscribe(topic, handler)
    /\ UNCHANGED <<regVars, extVars, asyncVars>>

BusUnsubscribeAll ==
    /\ Quiet
    /\ \E event_name \in Topics \cup {"None"} : UnsubscribeAll(event_name)
    /\ UNCHANGED <<regVars, extVars, asyncVars>>

BusCollect ==
    /\ \E cb \in Callbacks : Collect(cb)
    /\ UNCHANGED <<regVars, extVars, asyncVars>>

BusEmit ==
    /\ Quiet
    /\ \E topic \in Topics : BeginEmit("main", topic, 0)
    /\ UNCHANGED <<onceCalls, regVars, extVars, asyncVars>>

BusHandlerCompletes ==
    /\ HandlerCompletes("main")
    /\ UNCHANGED <<regVars, extVars, asyncVars>>

BusEndEmit ==
    /\ EndEmit("main")
    /\ UNCHANGED <<regVars, extVars, asyncVars>>

NextBus ==
    \/ BusSubscribe
    \/ BusUnsubscribe
    \/ BusUnsubscribeAll
    \/ BusCollect
    \/ BusEmit
    \/ BusHandlerCompletes
    \/ BusEndEmit

SpecBus == Init /\ [][NextBus]_vars

(***************************************************************************)
(* Handlers that call the bus.  While emit awaits handler.invoke (line     *)
(* 226) the handler may subscribe, unsubscribe or emit on the same bus;    *)
(* an emit it calls is a frame on top of the one that invoked it.          *)
(***************************************************************************)
\* task main is inside a handler that an emit awaits
InHandler == frames["main"] # <<>> /\ Top("main").st = "invoking"

\* the subscribe calls handlers make: on topic x, without filter
HandlerSubscribeCalls == {c \in SubscribeCalls : c.topic = "x" /\ c.filter = "none"}

HandlerSubscribes ==
    /\ InHandler
    /\ \E c \in HandlerSubscribeCalls :
          Subscribe(c.topic, c.handler, c.priority, c.filter, c.once, c.weak)
    /\ UNCHANGED <<regVars, extVars, asyncVars>>

HandlerUnsubscribes ==
    /\ InHandler
    /\ \E handler \in Callbacks : Unsubscribe("x", handler)
    /\ UNCHANGED <<regVars, extVars, asyncVars>>

HandlerEmits ==
    /\ InHandler
    /\ \E topic \in Topics : BeginEmit("main", topic, 0)
    /\ UNCHANGED <<onceCalls, regVars, extVars, asyncVars>>

(***************************************************************************)
(* The bus with middleware, called from one task, one call at a time.      *)
(***************************************************************************)
\* add_middleware(middleware); the middleware are told apart by their number
add_middleware ==
    /\ Quiet
    /\ Len(_middleware) < MaxMiddleware
    /\ _middleware' = Append(_middleware, Len(_middleware) + 1)
    /\ UNCHANGED <<regVars, busVars, asyncVars, diVars, dispVars, replay>>

\* subscribe on topic x, without filter
SubscribeOnX ==
    /\ Quiet
    /\ \E c \in HandlerSubscribeCalls :
          Subscribe(c.topic, c.handler, c.priority, c.filter, c.once, c.weak)
    /\ UNCHANGED <<regVars, extVars, asyncVars>>

(***************************************************************************)
(* replay_events(get_history(...)).  get_history without event_name, since *)
(* and limit returns self._history itself, the list emit appends to and    *)
(* pops from; with a limit it returns a slice, a list of its own.  The for *)
(* loop of replay_events walks the list it was given by index.             *)
(***************************************************************************)
\* the list the loop of replay_events walks
ReplayList == IF replay.live THEN _history ELSE replay.snap

\* events = bus.get_history(limit=...); await bus.replay_events(events), up to
\* the loop; an empty list returns at once (line 322)
ReplayEvents ==
    /\ Quiet /\ ~replay.active
    /\ \E limit \in {<<>>, <<1>>} :
         LET events == GetHistory("None", limit)
         IN  /\ events # <<>>
             /\ replay' = [active |-> TRUE, live |-> limit = <<>>,
                           snap |-> IF limit = <<>> THEN <<>> ELSE events,
                           i |-> 1, seq0 |-> events, emitted |-> <<>>]
    /\ UNCHANGED <<regVars, busVars, asyncVars, diVars, dispVars, _middleware>>

\* one pass of the loop (lines 326-339): the event at the loop's position is
\* emitted again, up to the first await of emit
ReplayEmit ==
    /\ replay.active /\ Quiet
    /\ replay.i <= Len(ReplayList)
    /\ BeginEmit("main", ReplayList[replay.i].name, 0)
    /\ replay' = [replay EXCEPT !.i = @ + 1, !.emitted = Append(@, ReplayList[replay.i].id)]
    /\ UNCHANGED <<onceCalls, regVars, asyncVars, diVars, dispVars, _middleware>>

\* the loop has reached the end of the list: replay_events returns
ReplayReturns ==
    /\ replay.active /\ Quiet
    /\ replay.i > Len(ReplayList)
    /\ replay' = [replay EXCEPT !.active = FALSE]
    /\ UNCHANGED <<regVars, busVars, asyncVars, diVars, dispVars, _middleware>>

\* an emit by the caller, before it calls replay_events
EmitBeforeReplay == ~replay.active /\ replay = NoReplay /\ BusEmit

NextReplay ==
    \/ SubscribeOnX
    \/ EmitBeforeReplay
    \/ ReplayEvents
    \/ ReplayEmit
    \/ BusHandlerCompletes
    \/ BusEndEmit
    \/ ReplayReturns

SpecReplay == Init /\ [][NextReplay]_vars

NextMiddleware ==
    \/ add_middleware
    \/ SubscribeOnX
    \/ BusEmit
    \/ BusHandlerCompletes
    \/ BusEndEmit

SpecMiddleware == Init /\ [][NextMiddleware]_vars

\* handlers that subscribe and unsubscribe
NextReentrant ==
    \/ BusSubscribe
    \/ BusEmit
    \/ HandlerSubscribes
    \/ HandlerUnsubscribes
    \/ BusHandlerCompletes
    \/ BusEndEmit

SpecReentrant == Init /\ [][NextReentrant]_vars

\* handlers that emit
NextNested ==
    \/ BusSubscribe
    \/ BusCollect
    \/ BusEmit
    \/ HandlerEmits
    \/ BusHandlerCompletes
    \/ BusEndEmit

SpecNested == Init /\ [][NextNested]_vars

(***************************************************************************)
(* The queue and its worker.  One task calls start, stop, emit_async and   *)
(* subscribe; start creates the task that runs _worker.  A task runs until *)
(* it suspends: the worker in _event_queue.get() on an empty queue or in   *)
(* a handler it awaits, the caller in stop(), awaiting the worker, or      *)
(* between two of its calls.  put() on the unbounded queue and get() on a  *)
(* queue that has an item do not suspend.                                  *)
(***************************************************************************)
\* the stop signal stop() puts: the None item
StopSignal == [qid |-> 0, name |-> "None"]

\* _event_queue.get(): the item taken and the queue left
QueueGetNewest(q) == [item |-> q[Len(q)], rest |-> SubSeq(q, 1, Len(q) - 1)]
QueueGet(q) == [item |-> Head(q), rest |-> Tail(q)]

\* the worker is running, not suspended: no other task runs
WorkerRuns ==
    \/ wpc = "loop"
    \/ wpc = "emit" /\ frames["worker"] # <<>> /\ Top("worker").st \in {"returned", "raised"}

\* the calling task is between two calls and may run
CallerRuns == mpc = "idle" /\ ~WorkerRuns

\* start()
Start ==
    /\ CallerRuns
    /\ ~_running
    /\ _running' = TRUE
    /\ _worker_task' = "task"
    /\ wpc' = "created"
    /\ UNCHANGED <<_event_queue, mpc, nextQ, delivered, finished, busVars, regVars, extVars>>

\* start() when the bus is running: returns at once
StartAgain ==
    /\ CallerRuns
    /\ _running
    /\ UNCHANGED vars

\* stop() up to its await of the worker task; without a worker task it returns
StopBegin ==
    /\ CallerRuns
    /\ Len(_event_queue) < MaxQueue
    /\ _running' = FALSE
    /\ IF _worker_task # "None"
       THEN /\ _event_queue' = Append(_event_queue, StopSignal)
            /\ mpc' = "stop_wait"
       ELSE UNCHANGED <<_event_queue, mpc>>
    /\ UNCHANGED <<_worker_task, wpc, nextQ, delivered, finished, busVars, regVars, extVars>>

\* stop() resumes when the worker task is done, and returns
StopReturn ==
    /\ mpc = "stop_wait"
    /\ wpc = "done"
    /\ _worker_task' = "None"
    /\ mpc' = "idle"
    /\ UNCHANGED <<_event_queue, _running, wpc, nextQ, delivered, finished, busVars, regVars, extVars>>

\* emit_async(event_name)
EmitAsync ==
    /\ CallerRuns
    /\ nextQ <= MaxEmits
    /\ Len(_event_queue) < MaxQueue
    /\ \E topic \in Topics :
          _event_queue' = Append(_event_queue, [qid |-> nextQ, name |-> topic])
    /\ nextQ' = nextQ + 1
    /\ UNCHANGED <<_running, _worker_task, wpc, mpc, delivered, finished, busVars, regVars, extVars>>

\* the subscribe calls made while the worker runs: f and g on topic x
AsyncSubscribeCalls ==
    {c \in SubscribeCalls : c.topic = "x" /\ c.filter = "none" /\ ~c.once /\ ~c.weak
                            /\ c.priority = (IF c.handler = "f" THEN NORMAL ELSE HIGH)}

AsyncSubscribe ==
    /\ CallerRuns
    /\ \E c \in AsyncSubscribeCalls :
          Subscribe(c.topic, c.handler, c.priority, c.filter, c.once, c.weak)
    /\ UNCHANGED <<regVars, extVars, asyncVars>>

\* _worker from the item get() returns: the stop signal ends the loop, an event
\* is emitted up to the first handler awaited
WorkerDequeue ==
    LET g == QueueGet(_event_queue)
    IN  /\ _event_queue' = g.rest
        /\ IF g.item = StopSignal
           THEN /\ wpc' = "done"
                /\ UNCHANGED <<delivered, busVars>>
           ELSE /\ wpc' = "emit"
                /\ delivered' = Append(delivered, g.item.qid)
                /\ BeginEmit("worker", g.item.name, g.item.qid)
                /\ UNCHANGED onceCalls
        /\ UNCHANGED <<_running, _worker_task, mpc, nextQ, finished, regVars, extVars>>

\* _worker at its while test, _running false: the task ends
WorkerExit ==
    /\ wpc \in {"created", "loop"}
    /\ ~_running
    /\ wpc' = "done"
    /\ UNCHANGED <<_event_queue, _running, _worker_task, mpc, nextQ, delivered, finished,
                   busVars, regVars, extVars>>

\* _worker at its while test, _running true, the queue empty: get() suspends
WorkerWait ==
    /\ wpc \in {"created", "loop"}
    /\ _running
    /\ _event_queue = <<>>
    /\ wpc' = "get"
    /\ UNCHANGED <<_event_queue, _running, _worker_task, mpc, nextQ, delivered, finished,
                   busVars, regVars, extVars>>

\* _worker at its while test, _running true, an item in the queue
WorkerTake ==
    /\ wpc \in {"created", "loop"}
    /\ _running
    /\ _event_queue # <<>>
    /\ WorkerDequeue

\* _worker resumes in get(), an item having been put
WorkerWake ==
    /\ wpc = "get"
    /\ _event_queue # <<>>
    /\ WorkerDequeue

\* the handler the worker's emit awaits returns or raises
WorkerHandlerCompletes ==
    /\ wpc = "emit"
    /\ HandlerCompletes("worker")
    /\ UNCHANGED <<regVars, extVars, asyncVars>>

\* the worker's emit returns, or raises into the except clause of the loop
WorkerEmitEnds ==
    /\ wpc = "emit"
    /\ EndEmit("worker")
    /\ wpc' = "loop"
    /\ finished' = Append(finished, Top("worker").qid)
    /\ UNCHANGED <<_event_queue, _running, _worker_task, mpc, nextQ, delivered, regVars, extVars>>

NextAsync ==
    \/ Start
    \/ StartAgain
    \/ StopBegin
    \/ StopReturn
    \/ EmitAsync
    \/ AsyncSubscribe
    \/ WorkerExit
    \/ WorkerWait
    \/ WorkerTake
    \/ WorkerWake
    \/ WorkerHandlerCompletes
    \/ WorkerEmitEnds

SpecAsync == Init /\ [][NextAsync]_vars

\* the event loop runs a task that is ready: the worker at its while test, at an
\* item put for its get(), or at the end of an emit, and the caller of stop() when
\* the worker task is done; a handler the worker awaits ends in finite time
SpecAsyncLive ==
    /\ SpecAsync
    /\ WF_vars(WorkerExit) /\ WF_vars(WorkerWait) /\ WF_vars(WorkerTake)
    /\ WF_vars(WorkerWake) /\ WF_vars(WorkerHandlerCompletes) /\ WF_vars(WorkerEmitEnds)
    /\ WF_vars(StopReturn)

(***************************************************************************)
(* The container.  resolve is a coroutine: a frame is one resolve call in  *)
(* progress, at the constructor parameter it is resolving (params), about  *)
(* to call the constructor or factory (call), awaiting an async factory    *)
(* (await_factory), or about to return or raise.                           *)
(***************************************************************************)
\* a dict with key k set to v, and with key k deleted
Put(f, k, v) == [x \in DOMAIN f \cup {k} |-> IF x = k THEN v ELSE f[x]]
Drop(f, k) == [x \in DOMAIN f \ {k} |-> f[x]]

\* the implementations registered: classes, told apart by the parameters of
\* __init__; a factory; an async factory; an object that is not callable
Classes == {"Leaf", "UsesX", "UsesY", "OptY"}
Implementations == Classes \cup {"factory", "async_factory", "object"}

\* inspect.signature(cls.__init__): the annotated parameters, with or without default
CtorParams(cls) ==
    CASE cls = "UsesX" -> <<[type |-> "X", default |-> FALSE]>>
      [] cls = "UsesY" -> <<[type |-> "Y", default |-> FALSE]>>
      [] cls = "OptY"  -> <<[type |-> "Y", default |-> TRUE]>>
      [] OTHER         -> <<>>

\* the object registered as an implementation; the instances the container makes
\* are 1, 2, ... in the order of made
TheObject == 0

\* DependencyDefinition
DependencyDefinition(did, interface, implementation, scope, name) ==
    [did |-> did, interface |-> interface, implementation |-> implementation,
     scope |-> scope, name |-> name]
NoDefinition == DependencyDefinition(0, "None", "None", "None", "None")

\* self._definitions.get(interface, [])
DefsOf(c, interface) ==
    IF interface \in DOMAIN _definitions[c] THEN defLists[_definitions[c][interface]]
    ELSE <<>>

\* what resolve on root depends on: its definitions and its singleton cache
RootView ==
    [definitions |-> [i \in Interfaces |-> DefsOf("root", i)],
     singletons  |-> _singletons["root"]]

\* a call on container c has run: the state of root is noted when c is root
Called(c) == rootView' = IF c = "root" THEN RootView' ELSE rootView

\* the container c exists
Exists(c) == c = "root" \/ hasChild

\* no resolve call is in progress
DIIdle == \A t \in DITasks : dstack[t] = <<>>

\* register(interface, implementation, scope, name)
register(c, interface, implementation, scope, name) ==
    LET definition == DependencyDefinition(nextDef, interface, implementation, scope, name)
        old == DefsOf(c, interface)
    IN  /\ nextDef' = nextDef + 1
        /\ IF name = "None" /\ interface \in DOMAIN _definitions[c]
           THEN \* the list the container holds is appended to in place
                /\ defLists' = [defLists EXCEPT ![_definitions[c][interface]] =
                                    Append(@, definition)]
                /\ UNCHANGED _definitions
           ELSE \* a new list: empty, or the old one without the definitions named name
                /\ defLists' = Append(defLists,
                                  Append(SelectSeq(old, LAMBDA d : d.name # name), definition))
                /\ _definitions' = [_definitions EXCEPT ![c] =
                                       Put(@, interface, Len(defLists) + 1)]

\* unregister(interface, name)
unregister(c, interface, name) ==
    IF interface \notin DOMAIN _definitions[c]
    THEN UNCHANGED <<_definitions, defLists, _singletons, epoch>>
    ELSE /\ IF name # "None"
            THEN /\ defLists' = Append(defLists,
                                   SelectSeq(DefsOf(c, interface), LAMBDA d : d.name # name))
                 /\ _definitions' = [_definitions EXCEPT ![c] =
                                        Put(@, interface, Len(defLists) + 1)]
            ELSE /\ _definitions' = [_definitions EXCEPT ![c] = Drop(@, interface)]
                 /\ UNCHANGED defLists
         /\ _singletons' = [_singletons EXCEPT ![c] = Drop(@, interface)]
         /\ epoch' = [epoch EXCEPT ![c][interface] = @ + 1]

\* the frame of a resolve call
ResolveFrame(c, interface, name, definition, pc, added, store, val, err) ==
    [c |-> c, interface |-> interface, name |-> name, def |-> definition, pc |-> pc,
     k |-> 1, added |-> added, store |-> store, val |-> val, err |-> err,
     cached0 |-> [singletons |-> _singletons[c], request |-> _request_scope[c]]]

\* the circular dependency test of resolve (line 147)
NeverCircular(c, interface) == FALSE
IsCircular(c, interface) == interface \in _resolving[c]

\* _create_instance up to its first call: the registered object is returned as it
\* is; a factory is called; the parameters of a class are resolved first
_create_instance(c, interface, name, definition, store) ==
    LET impl == definition.implementation
        pc == CASE impl = "object"        -> "return"
                [] impl = "async_factory" -> "await_factory"
                [] impl = "factory"       -> "call"
                [] OTHER -> IF CtorParams(impl) = <<>> THEN "call" ELSE "params"
    IN  ResolveFrame(c, interface, name, definition, pc, TRUE, store,
                     IF impl = "object" THEN TheObject ELSE 0, "None")

\* _resolve_singleton, _resolve_request, _resolve_transient up to _create_instance.
\* Both caches are keyed by definition.interface.
ResolveScopedNoCache(c, interface, name, definition) ==
    _create_instance(c, interface, name, definition,
                     IF definition.scope = "transient" THEN "none" ELSE definition.scope)
ResolveScoped(c, interface, name, definition) ==
    LET cache == CASE definition.scope = "singleton" -> _singletons[c]
                   [] definition.scope = "request"   -> _request_scope[c]
                   [] OTHER                          -> <<>>
    IN  IF definition.interface \in DOMAIN cache
        THEN ResolveFrame(c, interface, name, definition, "return", TRUE, "none",
                          cache[definition.interface], "None")
        ELSE _create_instance(c, interface, name, definition,
                              IF definition.scope = "transient" THEN "none"
                              ELSE definition.scope)

\* resolve(interface, name) from its first line to its first call or its end
EnterResolve(c, interface, name) ==
    LET definitions == DefsOf(c, interface)
        named == SelectSeq(definitions, LAMBDA d : d.name = name)
        fail(added, err) == ResolveFrame(c, interface, name, NoDefinition, "raise",
                                         added, "none", 0, err)
    IN  IF IsCircular(c, interface) THEN fail(FALSE, "RuntimeError")
        ELSE IF definitions = <<>> THEN fail(TRUE, "ValueError")
        ELSE IF name # "None"
             THEN IF named = <<>> THEN fail(TRUE, "ValueError")
                  ELSE ResolveScoped(c, interface, name, named[1])
             ELSE ResolveScoped(c, interface, name, definitions[Len(definitions)])

\* the innermost resolve call of task t
DTop(t) == dstack[t][Len(dstack[t])]

\* a resolve call begins: self._resolving.add(interface) unless it raised before
PushResolve(t, fr) ==
    /\ dstack' = [dstack EXCEPT ![t] = Append(@, fr)]
    /\ _resolving' = IF fr.added
                     THEN [_resolving EXCEPT ![fr.c] = @ \cup {fr.interface}]
                     ELSE _resolving

\* resolve(interface, name) called by task t on container c
resolve(t, c, interface, name) ==
    /\ dstack[t] = <<>>
    /\ PushResolve(t, EnterResolve(c, interface, name))
    /\ UNCHANGED <<hasChild, _definitions, defLists, _singletons, _request_scope,
                   nextDef, made, diLog, epoch>>

\* _create_instance at a constructor parameter with an annotation (line 238):
\* resolve(param.annotation) is called
ResolveParam(t) ==
    /\ dstack[t] # <<>>
    /\ DTop(t).pc = "params"
    /\ Len(dstack[t]) < MaxDepth
    /\ LET fr == DTop(t)
           param == CtorParams(fr.def.implementation)[fr.k]
       IN  PushResolve(t, EnterResolve(fr.c, param.type, "None"))
    /\ UNCHANGED <<hasChild, _definitions, defLists, _singletons, _request_scope,
                   nextDef, made, diLog, epoch, diCalls>>

\* the constructor or the factory is called (lines 212, 216, 246), or the async
\* factory awaited completes (line 208): a new instance, or an exception
Construct(t, pcs) ==
    /\ dstack[t] # <<>>
    /\ DTop(t).pc \in pcs
    /\ LET fr == DTop(t)
       IN  \E outcome \in {"returns", "raises"} :
             IF outcome = "returns"
             THEN /\ made' = Append(made, [def |-> fr.def, c |-> fr.c,
                                           ep |-> epoch[fr.c][fr.def.interface]])
                  /\ dstack' = [dstack EXCEPT ![t][Len(dstack[t])] =
                                   [fr EXCEPT !.pc = "return", !.val = Len(made) + 1]]
             ELSE /\ made' = made
                  /\ dstack' = [dstack EXCEPT ![t][Len(dstack[t])] =
                                   [fr EXCEPT !.pc = "raise", !.err = "Exception"]]
    /\ UNCHANGED <<hasChild, _definitions, defLists, _singletons, _request_scope,
                   _resolving, nextDef, diLog, epoch, diCalls>>

\* the caller's _create_instance after resolve(param.annotation) returned val or
\* raised err: a ValueError is passed over when the parameter has a default
AfterParam(caller, ok, val, err) ==
    LET params == CtorParams(caller.def.implementation)
        next == IF caller.k + 1 > Len(params)
                THEN [caller EXCEPT !.pc = "call"]
                ELSE [caller EXCEPT !.k = @ + 1]
    IN  IF ok THEN next
        ELSE IF err = "ValueError" /\ params[caller.k].default THEN next
        ELSE [caller EXCEPT !.pc = "raise", !.err = err]

\* the finally clause of resolve (lines 175-176), in a call that got past the
\* circular test: the interface leaves _resolving however the call ends
RemoveOnReturnOnly(fr) ==
    IF fr.added /\ fr.pc = "return"
    THEN [_resolving EXCEPT ![fr.c] = @ \ {fr.interface}]
    ELSE _resolving
ResolveFinally(fr) ==
    IF fr.added
    THEN [_resolving EXCEPT ![fr.c] = @ \ {fr.interface}]
    ELSE _resolving

\* a resolve call ends: the instance created is cached according to the scope
\* (lines 184, 193), the finally clause takes the interface out of _resolving
\* (a KeyError when it is not there), and the caller goes on
Return(t) ==
    /\ dstack[t] # <<>>
    /\ DTop(t).pc \in {"return", "raise"}
    /\ LET fr == DTop(t)
           n == Len(dstack[t])
           gone == fr.added /\ fr.interface \notin _resolving[fr.c]
           ok == fr.pc = "return" /\ ~gone
           err == IF gone THEN "KeyError" ELSE fr.err
       IN  /\ _resolving' = ResolveFinally(fr)
           /\ _singletons' = IF fr.pc = "return" /\ fr.store = "singleton"
                             THEN [_singletons EXCEPT ![fr.c] = Put(@, fr.def.interface, fr.val)]
                             ELSE _singletons
           /\ _request_scope' = IF fr.pc = "return" /\ fr.store = "request"
                                THEN [_request_scope EXCEPT ![fr.c] =
                                         Put(@, fr.def.interface, fr.val)]
                                ELSE _request_scope
           /\ diLog' = Append(diLog, [c |-> fr.c, interface |-> fr.interface,
                                      name |-> fr.name, def |-> fr.def, ok |-> ok,
                                      val |-> fr.val, err |-> err, outer |-> n = 1,
                                      ep |-> epoch[fr.c][fr.interface],
                                      call |-> diCalls, cached0 |-> fr.cached0])
           /\ dstack' = [dstack EXCEPT ![t] =
                            IF n = 1 THEN <<>>
                            ELSE Append(SubSeq(@, 1, n - 2),
                                        AfterParam(@[n - 1], ok, fr.val, err))]
    /\ UNCHANGED <<hasChild, _definitions, defLists, nextDef, made, epoch, diCalls>>

(***************************************************************************)
(* The container called from one task, one call at a time.                 *)
(***************************************************************************)
DINames == {"None", "a"}
Scopes == {"singleton", "request", "transient"}

\* the register calls of the model
RegisterCalls ==
    {r \in [interface : Interfaces, implementation : Implementations, scope : Scopes,
            name : DINames] :
        /\ r.name = "a" => r.interface = "X" /\ r.implementation = "Leaf"
                           /\ r.scope = "singleton"
        /\ r.scope = "request" => r.implementation = "Leaf" /\ r.interface = "X"
        /\ r.scope = "transient" => r.implementation \in {"Leaf", "object", "OptY"}
        /\ r.implementation \in {"OptY", "object"} => r.scope = "transient"
        /\ r.implementation # "factory"
        /\ r.implementation \in {"async_factory", "UsesY", "OptY", "object"}
              => r.interface = "X"
        /\ r.interface = "Y" => r.scope = "singleton"}

\* the register calls made on the child container
ChildRegisterCalls ==
    {r \in RegisterCalls : r.interface = "X" /\ r.implementation = "Leaf"
                           /\ r.scope = "singleton"}

\* the resolve calls of the model
ResolveCalls ==
    {r \in [interface : Interfaces, name : DINames] : r.name = "a" => r.interface = "X"}

DIRegister ==
    /\ DIIdle
    /\ diCalls < MaxDICalls
    /\ diCalls' = diCalls + 1
    /\ \E c \in Containers, r \in RegisterCalls :
          /\ Exists(c)
          /\ c = "child" => r \in ChildRegisterCalls
          /\ register(c, r.interface, r.implementation, r.scope, r.name)
          /\ UNCHANGED <<hasChild, _singletons, _request_scope, _resolving, dstack, made,
                         diLog, epoch>>
          /\ Called(c)
    /\ UNCHANGED <<regVars, busVars, asyncVars, dispVars, _middleware, replay>>

\* register_instance(interface, instance)
DIRegisterInstance ==
    /\ DIIdle
    /\ diCalls < MaxDICalls
    /\ diCalls' = diCalls + 1
    /\ \E c \in Containers, interface \in {"X"} :
          /\ Exists(c)
          /\ _singletons' = [_singletons EXCEPT ![c] = Put(@, interface, TheObject)]
          /\ register(c, interface, "object", "singleton", "None")
          /\ UNCHANGED <<hasChild, _request_scope, _resolving, dstack, made, diLog, epoch>>
          /\ Called(c)
    /\ UNCHANGED <<regVars, busVars, asyncVars, dispVars, _middleware, replay>>

DIUnregister ==
    /\ DIIdle
    /\ diCalls < MaxDICalls
    /\ diCalls' = diCalls + 1
    /\ \E c \in Containers, interface \in {"X"}, name \in DINames :
          /\ Exists(c)
          /\ c = "child" => name = "None"
          /\ unregister(c, interface, name)
          /\ UNCHANGED <<hasChild, _request_scope, _resolving, dstack, nextDef, made, diLog>>
          /\ Called(c)
    /\ UNCHANGED <<regVars, busVars, asyncVars, dispVars, _middleware, replay>>

\* create_child_container(): a new Container whose _definitions is a copy of the
\* dict of the parent, the lists in it the same objects
create_child_container ==
    /\ DIIdle
    /\ ~hasChild
    /\ diCalls < MaxDICalls
    /\ diCalls' = diCalls + 1
    /\ hasChild' = TRUE
    /\ _definitions' = [_definitions EXCEPT !["child"] = _definitions["root"]]
    /\ UNCHANGED <<defLists, _singletons, _request_scope, _resolving, dstack, nextDef, made,
                   diLog, epoch>>
    /\ Called("root")
    /\ UNCHANGED <<regVars, busVars, asyncVars, dispVars, _middleware, replay>>

\* clear_request_scope()
clear_request_scope ==
    /\ DIIdle
    /\ diCalls < MaxDICalls
    /\ diCalls' = diCalls + 1
    /\ \E c \in Containers :
          /\ Exists(c)
          /\ _request_scope[c] # <<>>
          /\ _request_scope' = [_request_scope EXCEPT ![c] = <<>>]
          /\ UNCHANGED <<hasChild, _definitions, defLists, _singletons, _resolving, dstack,
                         nextDef, made, diLog, epoch>>
          /\ Called(c)
    /\ UNCHANGED <<regVars, busVars, asyncVars, dispVars, _middleware, replay>>

DIResolve ==
    /\ DIIdle
    /\ diCalls < MaxDICalls
    /\ diCalls' = diCalls + 1
    /\ \E c \in Containers, r \in ResolveCalls :
          /\ Exists(c)
          /\ resolve("t1", c, r.interface, r.name)
          /\ Called(c)
    /\ UNCHANGED <<regVars, busVars, asyncVars, dispVars, _middleware, replay>>

DIResolveParam ==
    /\ ResolveParam("t1")
    /\ Called(DTop("t1").c)
    /\ UNCHANGED <<regVars, busVars, asyncVars, dispVars, _middleware, replay>>

DIConstruct ==
    /\ Construct("t1", {"call"})
    /\ Called(DTop("t1").c)
    /\ UNCHANGED <<regVars, busVars, asyncVars, dispVars, _middleware, replay>>

DIFactoryCompletes ==
    /\ Construct("t1", {"await_factory"})
    /\ Called(DTop("t1").c)
    /\ UNCHANGED <<regVars, busVars, asyncVars, dispVars, _middleware, replay>>

DIReturn ==
    /\ Return("t1")
    /\ Called(DTop("t1").c)
    /\ UNCHANGED <<regVars, busVars, asyncVars, dispVars, _middleware, replay>>

NextDI ==
    \/ DIRegister
    \/ DIRegisterInstance
    \/ DIUnregister
    \/ create_child_container
    \/ clear_request_scope
    \/ DIResolve
    \/ DIResolveParam
    \/ DIConstruct
    \/ DIFactoryCompletes
    \/ DIReturn

SpecDI == Init /\ [][NextDI]_vars

(***************************************************************************)
(* The root container called from two tasks of one event loop.  A task     *)
(* runs until it awaits something that suspends it, here the async factory *)
(* of a definition, or until its resolve call ends; then another task may  *)
(* run.  The definitions of X carry the names a and b, or no name.         *)
(***************************************************************************)
TaskNames == {"None", "a", "b"}

\* the task is not running: it is in no resolve call, or suspended at line 208
AtAwait(t) == IF dstack[t] = <<>> THEN TRUE ELSE DTop(t).pc = "await_factory"

\* the event loop may run task t: every other task is suspended or has ended
Runs(t) == \A u \in DITasks \ {t} : AtAwait(u)

\* the register calls of the tasks
TaskRegisterCalls ==
    {r \in [interface : {"X"}, implementation : {"Leaf", "UsesX", "async_factory"},
            scope : Scopes, name : TaskNames] :
        /\ r.implementation = "Leaf" => r.name # "None" /\ r.scope # "request"
        /\ r.implementation # "Leaf" => r.name = "None" /\ r.scope = "singleton"
        /\ r.scope = "transient" => r.name = "b"}

TaskRegister ==
    /\ DIIdle
    /\ diCalls < MaxDICalls
    /\ diCalls' = diCalls + 1
    /\ \E r \in TaskRegisterCalls :
          register("root", r.interface, r.implementation, r.scope, r.name)
    /\ UNCHANGED <<hasChild, _singletons, _request_scope, _resolving, dstack, made, diLog,
                   epoch>>
    /\ Called("root")
    /\ UNCHANGED <<regVars, busVars, asyncVars, dispVars, _middleware, replay>>

TaskResolve ==
    /\ diCalls < MaxDICalls
    /\ diCalls' = diCalls + 1
    /\ \E t \in DITasks, name \in TaskNames :
          /\ Runs(t)
          /\ resolve(t, "root", "X", name)
    /\ Called("root")
    /\ UNCHANGED <<regVars, busVars, asyncVars, dispVars, _middleware, replay>>

TaskResolveParam ==
    /\ \E t \in DITasks : Runs(t) /\ ResolveParam(t)
    /\ Called("root")
    /\ UNCHANGED <<regVars, busVars, asyncVars, dispVars, _middleware, replay>>

TaskConstruct ==
    /\ \E t \in DITasks : Runs(t) /\ Construct(t, {"call"})
    /\ Called("root")
    /\ UNCHANGED <<regVars, busVars, asyncVars, dispVars, _middleware, replay>>

TaskFactoryCompletes ==
    /\ \E t \in DITasks : Runs(t) /\ Construct(t, {"await_factory"})
    /\ Called("root")
    /\ UNCHANGED <<regVars, busVars, asyncVars, dispVars, _middleware, replay>>

TaskReturn ==
    /\ \E t \in DITasks : Runs(t) /\ Return(t)
    /\ Called("root")
    /\ UNCHANGED <<regVars, busVars, asyncVars, dispVars, _middleware, replay>>

NextTasks ==
    \/ TaskRegister
    \/ TaskResolve
    \/ TaskResolveParam
    \/ TaskConstruct
    \/ TaskFactoryCompletes
    \/ TaskReturn

SpecTasks == Init /\ [][NextTasks]_vars

(***************************************************************************)
(* tool_handler, the handler of a tool with operations.  An action runs   *)
(* it from one await to the next.  dlog records the middleware            *)
(* whose process_request and process_response it has called, in order,     *)
(* the calls of the operation handler, and how it ended.  A result is a    *)
(* label for the payload returned, or for the place an exception that      *)
(* ends the call came from.  The middleware of the model pass the params   *)
(* and the response on as they got them, as the bodies in base_plugin.py   *)
(* do.                                                                     *)
(***************************************************************************)
\* the operation handlers tool_handler closes over: collected once, when the tool
\* is registered
operation_handlers == {"search", "add"}

\* the values of kwargs.get("operation"): absent, empty, known, unknown
Operations == {"None", "", "search", "add", "bogus"}

\* not operation
Falsy(operation) == operation \in {"None", ""}

\* operation in operation_handlers
AnyOperation(operation) == TRUE
KnownOperation(operation) == operation \in operation_handlers

\* f"tool.{tool_name}.{operation}" for the tool mem0_memory
EventNameOfTool(operation) == "tool.mem0_memory"
EventName(operation) ==
    CASE operation = "search" -> "tool.mem0_memory.search"
      [] operation = "add"    -> "tool.mem0_memory.add"
      [] OTHER                -> "tool.mem0_memory"

\* the keys of the payloads: the two error returns of tool_handler (lines 257,
\* 260), handle_error, and the result of an operation that succeeded
PayloadKeys(result) ==
    CASE result \in {"error_required", "error_unknown"} -> {"error"}
      [] result = "handler_error" -> {"error", "message", "operation", "tool"}
      [] result = "result" -> {"status", "data", "operation", "count"}
      [] OTHER -> {}

\* the results that are exceptions leaving tool_handler
Raised == {"raised_request", "raised_handler", "raised_response", "raised_emit"}

\* BaseOperationHandler.__call__: the four steps in a try block, an Exception of
\* any of them turned into the payload of handle_error
HandlerSteps == {"validate_parameters", "pre_execute", "execute", "post_execute"}
CallPropagates(outcome) == IF outcome = "returns" THEN "result" ELSE "raised_handler"
__call__(outcome) == IF outcome = "returns" THEN "result" ELSE "handler_error"

\* MiddlewarePlugin.get_priority of the classes of the model: A keeps the
\* default of the base class, B runs before it
get_priority(name) == IF name = "B" THEN 50 ELSE 100

\* sorted(middleware, key=get_priority): ascending, equal keys in list order
RECURSIVE SortedByPriority(_)
SortedByPriority(s) ==
    IF s = <<>> THEN <<>>
    ELSE LET rest == SortedByPriority(SubSeq(s, 1, Len(s) - 1))
             x == s[Len(s)]
             after == {j \in 1..Len(rest) : get_priority(rest[j]) > get_priority(x)}
             i == IF after = {} THEN Len(rest) + 1
                  ELSE CHOOSE j \in after : \A k \in after : j <= k
         IN  InsertAt(rest, i, x)

get_middleware_chain == SortedByPriority(get_plugins_by_type("MiddlewarePlugin"))

NewCall(operation) ==
    [operation |-> operation, request |-> <<>>, handler |-> 0, response |-> <<>>,
     result |-> "pending", history0 |-> _history, emits0 |-> nEmits, outcome |-> "none",
     event |-> NoEvent]

\* tool_handler ends: it returns a payload or raises
Ends(call, result) ==
    /\ dpc' = "ended"
    /\ dreq' = NoLoop
    /\ dlog' = [call EXCEPT !.result = result]

\* await handler(context, **kwargs), line 278
AwaitHandler(call) ==
    /\ dpc' = "handler"
    /\ dreq' = NoLoop
    /\ dlog' = [call EXCEPT !.handler = @ + 1]

\* await self.event_bus.emit(...), line 285
AwaitEmit(call) ==
    /\ BeginEmit("main", EventName(call.operation), 0)
    /\ dpc' = "emit"
    /\ dreq' = NoLoop
    /\ dlog' = [call EXCEPT !.event = [name |-> EventName(call.operation),
                                       result |-> call.result, after |-> call.response]]
    /\ UNCHANGED onceCalls

\* the call up to its first await, or to its return when the operation is absent
\* or unknown.  The tools are registered once discover_and_load has returned;
\* a call arrives between two operations on the registry.
tool_handler(operation) ==
    /\ dpc = "idle" /\ _initialized /\ ~rpc.active /\ nDispatch < MaxDispatch
    /\ nDispatch' = nDispatch + 1
    /\ LET call == NewCall(operation)
           chain == get_middleware_chain
       IN  IF Falsy(operation) THEN Ends(call, "error_required")
           ELSE IF ~KnownOperation(operation) THEN Ends(call, "error_unknown")
           ELSE IF chain = <<>> THEN AwaitHandler(call)
           ELSE /\ dpc' = "request"
                /\ dreq' = [chain |-> chain, i |-> 1]
                /\ dlog' = [call EXCEPT !.request = <<chain[1]>>]
    /\ UNCHANGED <<regVars, busVars, asyncVars, diVars, _middleware, replay>>

Dispatch == \E operation \in Operations : tool_handler(operation)

\* a process_request returns or raises (lines 271-272)
RequestCompletes ==
    /\ dpc = "request"
    /\ \E outcome \in {"returns", "raises"} :
         IF outcome = "raises" THEN Ends(dlog, "raised_request")
         ELSE IF dreq.i < Len(dreq.chain)
         THEN /\ dpc' = dpc
              /\ dreq' = [dreq EXCEPT !.i = @ + 1]
              /\ dlog' = [dlog EXCEPT !.request = Append(@, dreq.chain[dreq.i + 1])]
         ELSE AwaitHandler(dlog)
    /\ UNCHANGED <<nDispatch, regVars, busVars, asyncVars, diVars, _middleware, replay>>

\* the call of the operation handler ends, all its steps done or one of them
\* having raised; with its result the response loop starts over
\* reversed(get_middleware_chain()), fetched anew (lines 278-282)
OperationCompletes ==
    /\ dpc = "handler"
    /\ \E outcome \in {"returns"} \cup HandlerSteps :
         LET chain == Reversed(get_middleware_chain)
             call == [dlog EXCEPT !.outcome = outcome, !.result = __call__(outcome)]
         IN  IF call.result \in Raised THEN Ends(call, call.result) /\ UNCHANGED busVars
             ELSE IF chain = <<>> THEN AwaitEmit(call)
             ELSE /\ dpc' = "response"
                  /\ dreq' = [chain |-> chain, i |-> 1]
                  /\ dlog' = [call EXCEPT !.response = <<chain[1]>>]
                  /\ UNCHANGED busVars
    /\ UNCHANGED <<nDispatch, regVars, asyncVars, diVars, _middleware, replay>>

\* a process_response returns or raises (lines 281-282); after the last one the
\* event is emitted
ResponseCompletes ==
    /\ dpc = "response"
    /\ \E outcome \in {"returns", "raises"} :
         IF outcome = "raises" THEN Ends(dlog, "raised_response") /\ UNCHANGED busVars
         ELSE IF dreq.i < Len(dreq.chain)
         THEN /\ dpc' = dpc
              /\ dreq' = [dreq EXCEPT !.i = @ + 1]
              /\ dlog' = [dlog EXCEPT !.response = Append(@, dreq.chain[dreq.i + 1])]
              /\ UNCHANGED busVars
         ELSE AwaitEmit(dlog)
    /\ UNCHANGED <<nDispatch, regVars, asyncVars, diVars, _middleware, replay>>

\* emit returns, and tool_handler returns the result (line 291), or emit raises
DispatchReturns ==
    /\ dpc = "emit"
    /\ Ends(dlog, IF Top("main").st = "returned" THEN dlog.result ELSE "raised_emit")
    /\ EndEmit("main")
    /\ UNCHANGED <<nDispatch, regVars, asyncVars, diVars, _middleware, replay>>

\* the caller has the result of the call, or its exception
CallEnds ==
    /\ dpc = "ended"
    /\ dpc' = "idle"
    /\ dlog' = NoCall
    /\ UNCHANGED <<dreq, nDispatch, regVars, busVars, asyncVars, diVars, _middleware, replay>>

\* the server loads its plugins before anything else
Startup == calls = 0
\* tool_handler awaits the operation handler: another task may call reload_plugin
\* or unload_all
Suspended == dpc = "handler"
\* the task in unload_all runs on while tool_handler is idle or awaits the
\* operation handler: the middleware hooks of the model do not yield to it
Yielded == dpc \in {"idle", "handler"}

\* the dispatcher of a server that loads its plugins and then serves tool calls,
\* plugins being reloaded and unloaded while a call is suspended
NextDisp ==
    \/ Startup /\ DiscoverAndLoad
    \/ InitializePlugin
    \/ DiscoverDone
    \/ Suspended /\ UnloadAll
    \/ Yielded /\ OnUnload
    \/ Yielded /\ UnloadDone
    \/ Suspended /\ ReloadPlugin
    \/ Dispatch
    \/ RequestCompletes
    \/ OperationCompletes
    \/ ResponseCompletes
    \/ DispatchReturns
    \/ CallEnds

SpecDisp == Init /\ [][NextDisp]_vars

NextReg ==
    \/ DiscoverAndLoad
    \/ InitializePlugin
    \/ DiscoverDone
    \/ StartAll
    \/ OnStart
    \/ StopAll
    \/ OnStop
    \/ LoopDone
    \/ UnloadAll
    \/ OnUnload
    \/ UnloadDone
    \/ ReloadPlugin

\* the operations that change what is registered: start_all and stop_all only
\* call hooks
NextLoad ==
    \/ DiscoverAndLoad
    \/ InitializePlugin
    \/ DiscoverDone
    \/ UnloadAll
    \/ OnUnload
    \/ UnloadDone
    \/ ReloadPlugin

\* loading and unloading over every dependency graph of the model, the plugin
\* classes deriving from BasePlugin alone
InitGraphs ==
    /\ dependencies \in DependencyGraphs /\ bases = PlainBases
    /\ InitReg /\ InitBus /\ InitAsync /\ InitExt

SpecReg == InitGraphs /\ [][NextLoad]_vars

\* every registry operation, over classified plugin classes: without dependencies,
\* or A depending on C, which is registered after it
LifeGraphs == {NoDependencies, [NoDependencies EXCEPT !["A"] = <<"C">>]}
InitLife ==
    /\ dependencies \in LifeGraphs /\ bases = ClassifiedBases
    /\ InitReg /\ InitBus /\ InitAsync /\ InitExt

SpecLife == InitLife /\ [][NextReg]_vars

(***************************************************************************)
(* Properties of the event bus called from one task.                       *)
(***************************************************************************)
\* the sequence n, n+1, ..., m
Interval(n, m) == [i \in 1..(m + 1 - n) |-> n + i - 1]

\* ascending priority value, equal priorities in order of registration
Ordered(hs) ==
    \A i, j \in 1..Len(hs) :
        i < j => \/ hs[i].priority < hs[j].priority
                 \/ hs[i].priority = hs[j].priority /\ hs[i].sid < hs[j].sid

\* the emit calls in progress
AllFrames == UNION {Range(frames[t]) : t \in Tasks}

\* C4: every handler list is sorted by ascending priority value, handlers of equal
\* priority in order of subscription; an emit invokes the handlers of the list in
\* list order, passing over none but dead and filtered ones, and its results are
\* those of the handlers that returned, in the same order.  (An emit that a
\* raising filter ended has invoked the handlers before that filter's, in order.)
C4_PriorityOrder ==
    /\ \A topic \in DOMAIN _handlers : Ordered(_handlers[topic])
    /\ \A fr \in AllFrames :
          /\ Ordered(fr.list0)
          /\ fr.invoked = Restrict(SidsOf(fr.list0), Range(fr.invoked))
          /\ (fr.st \in {"returned", "raised"} /\ fr.filterRaised = 0) =>
                /\ Range(SidsOf(fr.list0)) = Range(fr.invoked) \cup fr.filtered \cup fr.deadSeen
                /\ fr.results = Restrict(fr.invoked, Range(fr.invoked) \ fr.raisedIn)

\* C4 witness: an emit has returned the results of two handlers, the one subscribed
\* second (at a higher priority) first.
C4_Witness ==
    \E fr \in AllFrames :
        /\ fr.st = "returned"
        /\ Len(fr.results) = 2
        /\ fr.results[1] > fr.results[2]

\* C5: a subscription with once=True is invoked at most once, whatever its outcome,
\* and once it has been invoked and the emit has returned it is in no handler list.
C5_OnceAtMostOnce ==
    \A s \in DOMAIN onceCalls :
        /\ onceCalls[s] <= 1
        /\ (onceCalls[s] = 1 /\ Quiet) =>
              \A topic \in DOMAIN _handlers : s \notin Range(SidsOf(_handlers[topic]))

\* C6: when a handler raises, emit does not raise; by its return every handler of
\* the list after the one that raised has been invoked (unless dead or filtered),
\* and the results are those of the handlers that did not raise.  (Stated for
\* emits in which no filter raises: what a raising filter does is C35.)
C6_FailureIsolation ==
    \A fr \in AllFrames :
        (fr.raisedIn # {} /\ fr.filterRaised = 0) =>
            /\ fr.st # "raised"
            /\ Len(fr.results) + Cardinality(fr.raisedIn) =
                 Len(fr.invoked) - (IF fr.st = "invoking" THEN 1 ELSE 0)
            /\ Range(fr.results) = { fr.invoked[i] : i \in
                   {j \in 1..Len(fr.invoked) :
                       /\ fr.invoked[j] \notin fr.raisedIn
                       /\ fr.st = "invoking" => j < Len(fr.invoked)} }
            /\ fr.st = "returned" =>
                 Range(SidsOf(fr.list0)) \ (fr.filtered \cup fr.deadSeen) = Range(fr.invoked)

\* C6 witness: an emit has returned the result of a handler that ran after one
\* that raised.
C6_Witness ==
    \E fr \in AllFrames :
        /\ fr.st = "returned"
        /\ Len(fr.invoked) = 2
        /\ fr.invoked[1] \in fr.raisedIn
        /\ fr.results = <<fr.invoked[2]>>

\* C7: a weak handler whose referent is gone when emit is called is not invoked;
\* the emit does not raise, invokes the other handlers (unless filtered), and leaves
\* the handler list of the topic without the dead handler.
C7_WeakHandlerDropped ==
    \A fr \in AllFrames :
        /\ fr.dead0 \cap Range(fr.invoked) = {}
        /\ fr.dead0 # {} =>
              /\ fr.st # "raised"
              /\ fr.st = "returned" =>
                    /\ Range(SidsOf(fr.list0)) \ (fr.dead0 \cup fr.filtered \cup fr.deadSeen)
                          = Range(fr.invoked)
                    /\ fr.dead0 \cap Range(SidsOf(HandlersOf(_handlers, fr.topic))) = {}

\* C7 witness: an emit over a list with a dead weak handler has returned the result
\* of the other handler of the list.
C7_Witness ==
    \E fr \in AllFrames :
        /\ fr.st = "returned"
        /\ fr.dead0 # {}
        /\ Len(fr.list0) = 2
        /\ Len(fr.results) = 1

\* C8: the history holds the last HistorySize events emitted, in emission order,
\* and get_history() returns them.
C8_HistoryBound ==
    LET first == IF nEmits > HistorySize THEN nEmits - HistorySize + 1 ELSE 1
        got == GetHistory("None", <<>>)
    IN  /\ Len(got) <= HistorySize
        /\ [i \in 1..Len(got) |-> got[i].id] = Interval(first, nEmits)

\* C8 witness: more events have been emitted than the history holds.
C8_Witness == nEmits > HistorySize /\ Len(_history) = HistorySize

(***************************************************************************)
(* Properties of the queue and its worker.                                 *)
(***************************************************************************)
\* the events in the queue, oldest first
QueuedEvents == SelectSeq(_event_queue, LAMBDA e : e # StopSignal)

\* C9: when the worker task has ended and stop() is about to return, every event
\* enqueued before stop() was called has been delivered to its handlers.
C9_StopDrains ==
    (mpc = "stop_wait" /\ wpc = "done") => finished = Interval(1, nextQ - 1)

\* C10: the worker calls emit for the queued events in the order of the emit_async
\* calls: at any time the events delivered are the first enqueued and the rest
\* wait in the queue in order, none lost and none twice; an emit of the worker
\* has ended before the next begins.
C10_FifoDelivery ==
    /\ delivered \o [i \in 1..Len(QueuedEvents) |-> QueuedEvents[i].qid]
          = Interval(1, nextQ - 1)
    /\ Len(frames["worker"]) <= 1
    /\ IF frames["worker"] = <<>>
       THEN finished = delivered
       ELSE /\ delivered # <<>>
            /\ finished = SubSeq(delivered, 1, Len(delivered) - 1)
            /\ Top("worker").qid = delivered[Len(delivered)]

\* C10 witness: the running worker has delivered two events to a handler, one after
\* the other, and a third waits in the queue.
C10_Witness ==
    /\ _running
    /\ finished = <<1, 2>>
    /\ Len(QueuedEvents) = 1
    /\ _handlers # <<>>

\* C25: an emit that a middleware cancelled has returned an empty list, has invoked
\* no handler and marked none for removal, has run the middleware up to the one
\* that cancelled and none after it, and has left the handler lists as they were.
C25_CancelledEmit ==
    \A fr \in AllFrames :
        fr.cancelled =>
            /\ fr.st = "returned"
            /\ fr.results = <<>>
            /\ fr.invoked = <<>>
            /\ fr.toRemove = <<>>
            /\ IsPrefix(fr.mw, _middleware)
            /\ HandlersOf(_handlers, fr.topic) = fr.list0

\* C25 witness: the first of two middleware has cancelled an emit on a topic with a
\* once handler; the second did not run.
C25_Witness ==
    \E fr \in AllFrames :
        /\ fr.cancelled
        /\ Len(_middleware) = 2
        /\ fr.mw = <<1>>
        /\ \E i \in 1..Len(fr.list0) : fr.list0[i].once
        /\ fr.list0 = _handlers[fr.topic]

\* C23: no emit call invokes a subscription twice, whatever the handlers subscribe
\* or unsubscribe on the topic while the emit is in progress.
C23_InvokedAtMostOncePerEmit ==
    \A fr \in AllFrames : NoDuplicates(fr.invoked)

\* C24: no emit call raises when handlers call emit from inside their invocation,
\* and an emit that has returned has been through every handler the list of the
\* topic held when it began.
C24_NestedEmitSafe ==
    \A fr \in AllFrames :
        /\ fr.st # "raised"
        /\ fr.st = "returned" =>
              Range(SidsOf(fr.list0)) \subseteq
                  Range(fr.invoked) \cup fr.filtered \cup fr.deadSeen

(***************************************************************************)
(* Properties of the container.                                            *)
(***************************************************************************)
\* the resolve calls that returned an instance
Returned == {i \in 1..Len(diLog) : diLog[i].ok}

\* the instances in the caches of container c
CachedIn(c) ==
    {_singletons[c][x] : x \in DOMAIN _singletons[c]}
        \cup {_request_scope[c][x] : x \in DOMAIN _request_scope[c]}

\* the nested resolve calls of the outer call logged at j, and j
CallOf(j) == {i \in 1..j : \A k \in i..(j - 1) : ~diLog[k].outer}

\* C11: while one singleton definition is the one selected for X and X is not
\* unregistered, all resolve(X) calls on a container return the same instance, and
\* the container constructs the implementation at most once.
C11_Singleton ==
    /\ \A i, j \in Returned :
          (/\ diLog[i].c = diLog[j].c
           /\ diLog[i].interface = diLog[j].interface
           /\ diLog[i].name = "None" /\ diLog[j].name = "None"
           /\ diLog[i].def = diLog[j].def
           /\ diLog[i].def.scope = "singleton"
           /\ diLog[i].ep = diLog[j].ep)
          => diLog[i].val = diLog[j].val
    /\ \A m, n \in 1..Len(made) :
          (/\ made[m].def.scope = "singleton"
           /\ made[m].def = made[n].def
           /\ made[m].c = made[n].c
           /\ made[m].ep = made[n].ep)
          => m = n

\* C11 witness: two resolve(X) calls have returned the instance the container
\* constructed from a class with a constructor parameter.
C11_Witness ==
    \E i, j \in Returned :
        /\ i < j
        /\ diLog[i].outer /\ diLog[j].outer
        /\ diLog[i].c = diLog[j].c
        /\ diLog[i].interface = "X" /\ diLog[j].interface = "X"
        /\ diLog[i].def = diLog[j].def
        /\ diLog[i].def.scope = "singleton"
        /\ diLog[i].def.implementation = "UsesY"
        /\ diLog[i].val = diLog[j].val
        /\ diLog[i].val # TheObject

\* C12: no two resolve(Y) calls on a container that select a transient definition
\* return the same object, and an instance made for a transient definition is in
\* neither cache.
C12_Transient ==
    /\ \A i, j \in Returned :
          (/\ i # j
           /\ diLog[i].c = diLog[j].c
           /\ diLog[i].interface = diLog[j].interface
           /\ diLog[i].def.scope = "transient"
           /\ diLog[j].def.scope = "transient")
          => diLog[i].val # diLog[j].val
    /\ \A m \in 1..Len(made) :
          made[m].def.scope = "transient" => \A c \in Containers : m \notin CachedIn(c)

\* C13: the resolve calls in progress on a task are for different interfaces, but
\* for the innermost one when it raises the circular dependency error, so that the
\* nesting is bounded; that error reaches the caller of the outer resolve; and the
\* call has left the caches as they were for every interface it failed to resolve.
C13_CycleDetected ==
    /\ \A t \in DITasks : \A i, j \in 1..Len(dstack[t]) :
          (i < j /\ dstack[t][i].interface = dstack[t][j].interface) =>
              /\ j = Len(dstack[t])
              /\ dstack[t][j].pc = "raise"
              /\ dstack[t][j].err = "RuntimeError"
    /\ \A j \in 1..Len(diLog) :
          (diLog[j].outer /\ \E i \in CallOf(j) : diLog[i].err = "RuntimeError") =>
              /\ ~diLog[j].ok
              /\ diLog[j].err = "RuntimeError"
              /\ (j = Len(diLog) /\ diLog[j].call = diCalls /\ DIIdle) =>
                    \A i \in CallOf(j) :
                        LET x == diLog[i].interface
                            c == diLog[i].c
                        IN  diLog[i].err = "RuntimeError" =>
                              /\ x \in DOMAIN _singletons[c] =>
                                    /\ x \in DOMAIN diLog[j].cached0.singletons
                                    /\ _singletons[c][x] = diLog[j].cached0.singletons[x]
                              /\ x \in DOMAIN _request_scope[c] =>
                                    /\ x \in DOMAIN diLog[j].cached0.request
                                    /\ _request_scope[c][x] = diLog[j].cached0.request[x]

\* C13 witness: resolve(X) has raised the circular dependency error, X constructed
\* with a Y and Y with an X, and neither is cached.
C13_Witness ==
    /\ DIIdle
    /\ Len(diLog) >= 3
    /\ LET n == Len(diLog)
       IN  /\ diLog[n].outer /\ diLog[n].interface = "X" /\ diLog[n].err = "RuntimeError"
           /\ ~diLog[n - 1].outer /\ diLog[n - 1].interface = "Y"
           /\ ~diLog[n - 2].outer /\ diLog[n - 2].interface = "X"
           /\ diLog[n - 2].err = "RuntimeError"
           /\ CallOf(n) = {n - 2, n - 1, n}
           /\ _singletons[diLog[n].c] = <<>>

\* C20: the calls on the child leave the definitions and the singleton cache of
\* root as the last call on root left them, and an instance the child returns for
\* a singleton definition of a class or factory was made by the child.
C20_ChildIsolated ==
    /\ hasChild => RootView = rootView
    /\ \A i \in Returned :
          (/\ diLog[i].c = "child"
           /\ diLog[i].def.scope = "singleton"
           /\ diLog[i].val # TheObject)
          => made[diLog[i].val].c = "child"

\* C22: when a resolve(X) call has returned an instance the container made for a
\* singleton definition, every later resolve(X) call on that container that selects
\* a singleton definition returns that instance, as long as X is not unregistered.
C22_SingletonSurvivesReregistration ==
    \A i, j \in Returned :
        (/\ i < j
         /\ diLog[i].c = diLog[j].c
         /\ diLog[i].interface = diLog[j].interface
         /\ diLog[i].name = "None" /\ diLog[j].name = "None"
         /\ diLog[i].def.scope = "singleton"
         /\ diLog[j].def.scope = "singleton"
         /\ diLog[i].val # TheObject
         /\ diLog[i].ep = diLog[j].ep)
        => diLog[i].val = diLog[j].val

\* the definitions ever registered: a list that register replaces stays in defLists
EverRegistered ==
    UNION {Range(defLists[l]) : l \in 1..Len(defLists)}

\* C21: a resolve(X, name) call that returns has selected a definition registered
\* under that name and returns an instance made for a definition of that name, and
\* no resolve call with a name that was never registered returns.
C21_NamedResolveExact ==
    /\ \A i \in Returned :
          diLog[i].name # "None" =>
              /\ diLog[i].def \in EverRegistered
              /\ diLog[i].def.name = diLog[i].name
              /\ diLog[i].def.interface = diLog[i].interface
              /\ diLog[i].val # TheObject =>
                    /\ made[diLog[i].val].def.name = diLog[i].name
                    /\ made[diLog[i].val].def.interface = diLog[i].interface
    /\ \A i \in 1..Len(diLog) :
          (/\ diLog[i].name # "None"
           /\ \A d \in EverRegistered :
                 ~(d.name = diLog[i].name /\ d.interface = diLog[i].interface))
          => ~diLog[i].ok

\* C29: a resolve call raises the circular dependency error only when its
\* interface is being resolved further out on the stack of the same task.
C29_CircularOnlyOnOwnStack ==
    \A t \in DITasks :
        (/\ dstack[t] # <<>>
         /\ DTop(t).pc = "raise"
         /\ DTop(t).err = "RuntimeError")
        => \E i \in 1..(Len(dstack[t]) - 1) : dstack[t][i].interface = DTop(t).interface

(***************************************************************************)
(* Properties of the plugin registry.                                      *)
(***************************************************************************)
Deps(p) == Range(dependencies[p])

\* the plugins of nodes that p reaches through one or more dependency edges
RECURSIVE Closure(_, _, _)
Closure(S, nodes, n) ==
    IF n = 0 THEN S
    ELSE Closure(S \cup {d \in nodes : \E q \in S : d \in Deps(q)}, nodes, n - 1)
ReachableFrom(p, nodes) ==
    Closure(Deps(p) \cap nodes, nodes, Cardinality(nodes))
Acyclic(nodes) == \A p \in nodes : p \notin ReachableFrom(p, nodes)

\* the plugins a hook was called on, in call order
HookCalls(hook) ==
    LET calls_ == SelectSeq(hookLog, LAMBDA e : e[1] = hook)
    IN  [i \in 1..Len(calls_) |-> calls_[i][2]]

LoopExhausted == rpc.active /\ rpc.i > Len(_load_order)

\* C1: when the dependency graph over the registered plugins has no cycle,
\* discover_and_load calls initialize() on a plugin only after it has called
\* initialize() on each of the plugin's dependencies that is registered, and by
\* the end of its loop it has called initialize() once on every registered plugin.
C1_TopologicalOrder ==
    (rpc.op = "discover" /\ Acyclic(graphNodes)) =>
        /\ \A i \in 1..Len(hookLog) :
              hookLog[i][1] = "initialize" =>
                \A d \in Deps(hookLog[i][2]) \cap graphNodes :
                    \E j \in 1..(i - 1) : hookLog[j] = <<"initialize", d>>
        /\ NoDuplicates(HookCalls("initialize"))
        /\ LoopExhausted => Range(HookCalls("initialize")) = graphNodes

\* C1 witness: discover_and_load has initialized A and C, A depends on C, and C was
\* registered after A, so that the order of registration is not a valid order.
C1_Witness ==
    /\ rpc.op = "discover" /\ LoopExhausted
    /\ Acyclic(graphNodes)
    /\ graphNodes = Plugins
    /\ "C" \in Deps("A") /\ "B" \in Deps("C")
    /\ HookCalls("initialize") = <<"B", "C", "A">>

\* C2: when discover_and_load has just called initialize() on a plugin, every
\* dependency of that plugin that was registered when the order was computed is
\* registered and has completed initialize() and on_load().  (Stated for graphs
\* without a cycle, where a plugin is never its own dependency.)
C2_DependenciesInitialized ==
    (rpc.op = "discover" /\ Acyclic(graphNodes) /\ Len(HookCalls("initialize")) > 0) =>
        LET inits == HookCalls("initialize")
            p == inits[Len(inits)]
        IN  \A d \in Deps(p) \cap graphNodes : d \in Registered /\ pstate[d] = "loaded"

\* C3: start_all calls on_start on the registered plugins in load order; stop_all
\* calls on_stop, and unload_all calls on_unload, on the registered plugins in the
\* reverse of the load order; a teardown follows the on_unload of the same plugin
\* at once, so that the hooks of two plugins are never interleaved.
C3_LifecycleOrder ==
    LET L == order0.load_order
        kept == order0.plugins
        hook == CASE rpc.op = "start_all" -> "on_start"
                  [] rpc.op = "stop_all" -> "on_stop"
                  [] OTHER -> "on_unload"
        expected == IF rpc.op = "start_all" THEN Restrict(L, kept)
                    ELSE Restrict(Reversed(L), kept)
    IN  (rpc.op \in {"start_all", "stop_all", "unload_all"}) =>
            /\ IsPrefix(HookCalls(hook), expected)
            /\ LoopExhausted => HookCalls(hook) = expected
            /\ \A k \in 1..Len(hookLog) :
                  hookLog[k][1] # hook =>
                     /\ hookLog[k][1] = "teardown"
                     /\ k > 1 /\ hookLog[k - 1] = <<"on_unload", hookLog[k][2]>>

\* C3 witness: stop_all has finished over a load order of three plugins of which
\* one failed to initialize, the on_stop calls running against the load order.
C3_Witness ==
    /\ rpc.op = "stop_all" /\ LoopExhausted
    /\ Len(_load_order) = 3
    /\ Len(HookCalls("on_stop")) = 2
    /\ HookCalls("on_stop") # Restrict(_load_order, Registered)

\* C30: when the loop of unload_all is exhausted it has called on_unload on every
\* plugin that was registered when it began, against the load order, and teardown
\* on each of them after its on_unload; and when unload_all returns the registry
\* has no plugin, no classification entry, an empty load order, and is not
\* initialized.
C30_UnloadAll ==
    [][/\ (rpc'.op = "unload_all" /\ LoopExhausted') =>
             /\ HookCalls("on_unload")' =
                   Restrict(Reversed(order0'.load_order), order0'.plugins)
             /\ Range(HookCalls("on_unload"))' = order0'.plugins
             /\ HookCalls("teardown")' = HookCalls("on_unload")'
       /\ (rpc.op = "unload_all" /\ rpc.active /\ ~rpc'.active) =>
             /\ _plugins' = <<>>
             /\ _plugin_types' = NoTypes
             /\ _load_order' = <<>>
             /\ ~_initialized']_vars

\* C31: in start_all and stop_all a hook that raises ends neither the loop nor
\* the registration of its plugin: the plugins registered stay the ones
\* registered when the loop began, and when the loop is exhausted the hook has
\* been called once on each of them that is in the load order.
C31_HookFailureIsolated ==
    (rpc.op \in {"start_all", "stop_all"} /\ rpc.active) =>
        /\ Registered = order0.plugins
        /\ \A k \in 1..Len(hookLog) : hookLog[k][2] \in Registered
        /\ LoopExhausted =>
              \A p \in order0.plugins \cap Range(order0.load_order) :
                  Cardinality({k \in 1..Len(hookLog) : hookLog[k][2] = p}) = 1

\* C31 witness: stop_all has gone through three plugins, on_stop of the first one
\* called having raised.
C31_Witness ==
    /\ rpc.op = "stop_all" /\ LoopExhausted
    /\ Len(hookLog) = 3
    /\ hookLog[1][3] = "raises"
    /\ hookLog[2][3] = "returns"
    /\ hookLog[1][2] \in Registered

\* a step that is a call of reload_plugin on a registered plugin: a call made
\* while no loop over the load order is in progress, and that begins none
ReloadStep ==
    /\ ~rpc.active /\ rpc' = rpc /\ calls' = calls + 1
    /\ Registered # {}

\* C32: reload_plugin(name) leaves every plugin other than the named one as it
\* was, registered or not, in the lifecycle state its hooks have brought it to,
\* started or not (so no hook was called on it), and leaves the load order as it
\* was.
C32_ReloadFrame ==
    [][ReloadStep =>
          /\ \E name \in Registered :
                \A q \in Plugins \ {name} :
                   /\ (q \in Registered') = (q \in Registered)
                   /\ pstate'[q] = pstate[q]
                   /\ (q \in started') = (q \in started)
          /\ _load_order' = _load_order]_vars

\* C32 witness: the plugin two others come after in the load order has been
\* reloaded, which has started it and no other, and the three are registered,
\* the load order what discover_and_load computed.
C32_Witness ==
    /\ ~rpc.active /\ _initialized
    /\ Len(_load_order) = 3
    /\ started = {_load_order[1]}
    /\ Registered = Plugins
    /\ \A p \in Plugins : pstate[p] = "loaded"

\* the number of entries of a list that are x
Count(s, x) == Cardinality({i \in 1..Len(s) : s[i] = x})

\* C16: a reload_plugin that returned False because a step raised has left the
\* name unregistered, so that no half-initialized instance stays in the registry:
\* when no registry operation is in progress, every registered instance has
\* completed initialize() and on_load().
C16_ReloadFailureUnregisters ==
    ~rpc.active => \A p \in Registered : pstate[p] = "loaded"

\* a step of start_all that calls on_start on p
StartsPlugin(p) ==
    /\ rpc.op = "start_all"
    /\ \E outcome \in {"returns", "raises"} :
          hookLog' = Append(hookLog, <<"on_start", p, outcome>>)

\* C17: start_all never calls on_start on an instance that has received on_start
\* already, be it from an earlier start_all or from the reload_plugin that made it.
C17_StartedAtMostOnce ==
    [][\A p \in Plugins : StartsPlugin(p) => p \notin started]_vars

\* C18: a plugin whose initialize or on_load raised in discover_and_load (it has
\* no instance any more) is not registered, get_plugin and get_plugins_by_type
\* do not return it, and start_all, stop_all and unload_all call no hook on it;
\* the loop of discover_and_load goes
\* on over the load order, so that at its end initialize() has been called on
\* every plugin of the order and every one whose hooks returned is registered.
C18_FailedPluginRemoved ==
    /\ \A p \in Plugins :
          pstate[p] = "none" =>
             /\ p \notin Registered
             /\ get_plugin(p) = "None"
             /\ \A t \in PluginTypes : p \notin Range(get_plugins_by_type(t))
    /\ rpc.op = "discover" =>
          /\ IsPrefix(HookCalls("initialize"), order0.load_order)
          /\ LoopExhausted =>
                /\ HookCalls("initialize") = order0.load_order
                /\ \A q \in order0.plugins : q \in Registered <=> pstate[q] = "loaded"
    /\ rpc.op \in {"start_all", "stop_all", "unload_all"} =>
          \A k \in 1..Len(hookLog) : pstate[hookLog[k][2]] # "none"

\* C18 witness: start_all has finished; B, whose initialize or on_load raised in
\* discover_and_load, is still in the load order and in the list of its base class,
\* and got no on_start, while A and C, initialized around it, did.
C18_Witness ==
    /\ rpc.op = "start_all" /\ LoopExhausted
    /\ _load_order = <<"A", "B", "C">>
    /\ "B" \in Range(_plugin_types["MiddlewarePlugin"])
    /\ "B" \notin Registered
    /\ HookCalls("on_start") = <<"A", "C">>

\* the step in which discover_and_load loads the plugin classes
LoadsClasses == ~rpc.active /\ rpc'.op = "discover"

\* C19: names are unique in _plugins; when discover_and_load loads the classes,
\* a name that is registered keeps its place, its instance (with the state it is
\* in) and its entries in the lists of _plugin_types, and every class whose name
\* is not registered is registered unless its own constructor raises.
C19_NamesUnique ==
    [][LoadsClasses =>
          /\ NoDuplicates(_plugins')
          /\ IsPrefix(_plugins, _plugins')
          /\ \A p \in Registered :
                /\ pstate'[p] = pstate[p]
                /\ p \in started' <=> p \in started
                /\ \A t \in PluginTypes : Count(_plugin_types'[t], p) = Count(_plugin_types[t], p)
          /\ \A c \in Plugins \ Registered :
                c \in Range(_plugins') \/ <<"construct_raises", c>> \in Range(hookLog')]_vars

\* C19 witness: discover_and_load has loaded the classes a second time: A and B,
\* registered and started before, are in place with one classification entry
\* each, and C, whose constructor raised the first time, is registered after them.
C19_Witness ==
    /\ rpc.op = "discover" /\ rpc.i = 1
    /\ _plugins = <<"A", "B", "C">>
    /\ pstate["A"] = "loaded" /\ pstate["B"] = "loaded" /\ pstate["C"] = "created"
    /\ started = {"A", "B"}
    /\ _plugin_types["MiddlewarePlugin"] = <<"A", "B">>
    /\ _plugin_types["OperationPlugin"] = <<"C">>

(***************************************************************************)
(* Properties of the tool dispatcher.                                      *)
(***************************************************************************)
\* C14: in a tool call with a known operation, process_response is called on the
\* middleware on which process_request was called, in the reverse order, after
\* the operation handler was invoked; when the call returns its result, on all
\* of them.
C14_ResponseReversesRequest ==
    /\ IsPrefix(dlog.response, Reversed(dlog.request))
    /\ dlog.response # <<>> => dlog.handler = 1
    /\ (dpc = "ended" /\ dlog.result \in {"result", "handler_error"}) =>
          /\ dlog.handler = 1
          /\ dlog.response = Reversed(dlog.request)

\* C15: a tool call whose operation is absent, empty or not among the operation
\* handlers has returned an error payload without suspending, has called no
\* process_request, no process_response and no operation handler, and has
\* emitted no event: the history is the one the call found.
C15_UnknownOperationRejected ==
    (dpc # "idle" /\ (Falsy(dlog.operation) \/ dlog.operation \notin operation_handlers)) =>
        /\ dpc = "ended"
        /\ dlog.result \in {"error_required", "error_unknown"}
        /\ Falsy(dlog.operation) <=> dlog.result = "error_required"
        /\ dlog.request = <<>> /\ dlog.response = <<>> /\ dlog.handler = 0
        /\ _history = dlog.history0 /\ nEmits = dlog.emits0

\* C15 witness: a call with an unknown operation has returned its error while two
\* middleware plugins are registered and the history holds the event of an
\* earlier call.
C15_Witness ==
    /\ dpc = "ended"
    /\ dlog.operation = "bogus" /\ dlog.result = "error_unknown"
    /\ Len(get_middleware_chain) = 2
    /\ Len(_history) = 1

\* C26: no tool call ends with an exception of the operation handler; when a step
\* of the handler has raised, the handler call has returned the payload of
\* handle_error, with the keys error, message, operation and tool, and the
\* dispatcher has gone on: unless a middleware raises it calls process_response
\* on the whole chain, emits the event with that payload and returns it.
C26_HandlerErrorContained ==
    /\ dlog.result # "raised_handler"
    /\ dlog.outcome \in HandlerSteps =>
          /\ dpc \in {"response", "emit", "ended"}
          /\ dlog.result \in {"handler_error", "raised_response", "raised_emit"}
          /\ PayloadKeys("handler_error") = {"error", "message", "operation", "tool"}
          /\ (dpc = "emit" \/ (dpc = "ended" /\ dlog.result = "handler_error")) =>
                /\ dlog.result = "handler_error"
                /\ dlog.response = Reversed(get_middleware_chain)
                /\ dlog.event = [name |-> EventName(dlog.operation),
                                 result |-> "handler_error", after |-> dlog.response]
                /\ nEmits = dlog.emits0 + 1

\* C26 witness: execute has raised, and the call has returned the error payload
\* after process_response of two middleware and the event.
C26_Witness ==
    /\ dpc = "ended"
    /\ dlog.outcome = "execute"
    /\ dlog.result = "handler_error"
    /\ Len(dlog.response) = 2
    /\ dlog.event.result = "handler_error"

\* C27: every payload a tool call returns has the key status.
C27_StatusField ==
    (dpc = "ended" /\ dlog.result \notin Raised) => "status" \in PayloadKeys(dlog.result)

\* C28: a tool call with a known operation emits nothing before its last
\* process_response has returned, and when it returns it has emitted one event,
\* named after the tool and the operation, that carries the result returned.
C28_OneEventPerDispatch ==
    /\ dpc \in {"request", "handler", "response"} =>
          nEmits = dlog.emits0 /\ dlog.event = NoEvent
    /\ (dpc \in {"emit", "ended"} /\ dlog.result \in {"result", "handler_error"}) =>
          /\ nEmits = dlog.emits0 + 1
          /\ _history # <<>>
          /\ _history[Len(_history)] =
                [id |-> nEmits,
                 name |-> CASE dlog.operation = "search" -> "tool.mem0_memory.search"
                            [] dlog.operation = "add" -> "tool.mem0_memory.add"]
          /\ dlog.event.name = _history[Len(_history)].name
          /\ dlog.event.result = dlog.result
          /\ dlog.event.after = dlog.response
          /\ dlog.response = Reversed(get_middleware_chain)

\* C28 witness: the second call, of the operation add, has returned its result
\* after the event, two middleware registered.
C28_Witness ==
    /\ dpc = "ended"
    /\ dlog.operation = "add"
    /\ dlog.result = "result"
    /\ nEmits = 2
    /\ Len(dlog.response) = 2

\* a step in which clear_request_scope() is called on container c
ClearStep(c) == _request_scope[c] # <<>> /\ _request_scope'[c] = <<>>

InProgress(c) ==
    UNION {{dstack[t][k].interface : k \in {k \in 1..Len(dstack[t]) :
                                              dstack[t][k].c = c /\ dstack[t][k].added}} :
           t \in DITasks}

\* a resolve call that found no registration for its interface
Unregistered(fr) == fr.def = NoDefinition /\ fr.err = "ValueError"

\* _resolving is the set of the calls in progress
ResolvingIsInProgress == \A c \in Containers : _resolving[c] = InProgress(c)

\* C38: after every step _resolving holds the interfaces of the resolve calls in
\* progress and no other, so that it is what it was before a call once the call
\* has returned or raised; no call made while no other is in progress is
\* rejected by the circular test; and a resolve call that finds no registration
\* changes neither the definitions nor the caches, when it begins and when it
\* ends.
C38_ResolvingRestored ==
    [][/\ ResolvingIsInProgress'
       /\ Len(diLog') = Len(diLog) + 1 =>
             LET e == diLog'[Len(diLog')]
             IN  (e.outer /\ e.err = "RuntimeError") => e.def # NoDefinition
       /\ \A t \in DITasks :
            (\/ (Len(dstack'[t]) = Len(dstack[t]) + 1 /\ Unregistered(dstack'[t][Len(dstack'[t])]))
             \/ (Len(diLog') = Len(diLog) + 1 /\ dstack[t] # <<>> /\ Unregistered(DTop(t))))
            => UNCHANGED <<_definitions, defLists, _singletons, _request_scope>>]_vars

\* C38 witness: a resolve(X) call has raised because the constructor's own
\* parameter is X, a later resolve(X) on the same container has returned an
\* instance, and no call is in progress.
C38_Witness ==
    /\ DIIdle
    /\ \E i, j, k \in 1..Len(diLog) :
          /\ i < j /\ j < k
          /\ diLog[i].err = "RuntimeError" /\ ~diLog[i].outer /\ diLog[i].def = NoDefinition
          /\ diLog[j].err = "RuntimeError" /\ diLog[j].outer /\ diLog[j].interface = "X"
          /\ diLog[k].ok /\ diLog[k].outer /\ diLog[k].interface = "X"
          /\ diLog[k].c = diLog[j].c

\* a step in which unregister(X, name) is called on container c with X among its
\* definitions, and returns False: the list of X is no shorter than it was
UnregisterReturnsFalse(c) ==
    /\ epoch'[c]["X"] = epoch[c]["X"] + 1
    /\ Len(DefsOf(c, "X")') = Len(DefsOf(c, "X"))

\* C39: an unregister call that returns False leaves the definitions of the
\* interface and its cached singleton as they were.
C39_FailedUnregisterFrame ==
    [][\A c \in Containers :
          UnregisterReturnsFalse(c) =>
             /\ DefsOf(c, "X")' = DefsOf(c, "X")
             /\ _singletons'[c] = _singletons[c]]_vars

\* C40: whatever the dependency graph, with a cycle or a plugin depending on
\* itself or neither, the load order _resolve_dependencies computed holds the
\* plugins registered at that moment, each of them once.
C40_LoadOrderComplete ==
    rpc.op = "discover" =>
        /\ Range(order0.load_order) = order0.plugins
        /\ NoDuplicates(order0.load_order)
        /\ Len(order0.load_order) = Cardinality(order0.plugins)

\* C40 witness: A and B depend on each other, and the load order computed for the
\* three plugins is B, A, C.
C40_Witness ==
    /\ rpc.op = "discover"
    /\ "B" \in Deps("A") /\ "A" \in Deps("B")
    /\ ~Acyclic(order0.plugins)
    /\ order0.plugins = Plugins
    /\ order0.load_order = <<"B", "A", "C">>
    /\ _load_order = order0.load_order

\* the last n entries of a list, all of them when it has fewer
MostRecent(s, n) == IF n >= Len(s) THEN s ELSE SubSeq(s, Len(s) - n + 1, Len(s))

\* C34: get_history(event_name, limit = n) returns, for every n from 0 on, the
\* min(n, m) most recent of the m events of the history that match event_name,
\* in the order they were emitted.
C34_HistoryLimit ==
    \A event_name \in {"None"} \cup Topics, n \in 0..(HistorySize + 1) :
        LET matching == IF event_name = "None" THEN _history
                        ELSE SelectSeq(_history, LAMBDA e : e.name = event_name)
        IN  GetHistory(event_name, <<n>>) = MostRecent(matching, n)

\* C35: an exception raised by the filter of a subscription does not end emit:
\* emit returns, having gone through the whole handler list.
C35_FilterErrorContained ==
    \A fr \in AllFrames :
        fr.filterRaised # 0 => /\ fr.st # "raised"
                               /\ fr.st = "returned" => fr.it > Len(fr.list0)

\* the ids of the events of a list
IdsOf(events) == [k \in 1..Len(events) |-> events[k].id]

\* C36: replay_events called with the list get_history() returned emits the
\* events of that list, as it was when get_history() returned it, once each and
\* in order: at any time the events emitted again are the first ones of the
\* list, the loop goes on while some are left, and it has ended when none is.
C36_ReplayOnce ==
    (replay.live /\ Quiet) =>
        /\ replay.emitted = SubSeq(IdsOf(replay.seq0), 1, Len(replay.emitted))
        /\ (replay.active /\ replay.i <= Len(ReplayList)) =>
              /\ replay.i <= Len(replay.seq0)
              /\ ReplayList[replay.i].id = replay.seq0[replay.i].id
        /\ ~replay.active => replay.emitted = IdsOf(replay.seq0)

\* the event of the q-th emit_async call is in the queue
InQueue(q) == \E k \in 1..Len(_event_queue) : _event_queue[k].qid = q

\* C37: while the bus is running, after its first start() and after a start()
\* that follows a stop() alike, an event emit_async has put in the queue is
\* eventually delivered to its handlers, unless stop() is called before.
C37_RestartDelivers ==
    \A q \in 1..MaxEmits :
        []((InQueue(q) /\ _running) => <>(q \in Range(finished) \/ ~_running))

====
